---- MODULE Spec2Model ----
(***************************************************************************)
(* Divide-and-conquer Voronoi diagram engine of VoronoiDiagram/            *)
(* voronoi_core.py, clipped to the rectangle [0,w] x [0,h].                *)
(*                                                                         *)
(* Numbers.  The program computes in double precision.  The model computes *)
(* in exact rational arithmetic: a number is a pair <<n, d>> in lowest     *)
(* terms with d > 0.  The program's tolerances (EPS, 1e-8, 1e-7, 1e-6,     *)
(* 1e-5) are kept as exact rationals 1/K and every comparison against them *)
(* is carried out exactly; what is abstracted away is the rounding error   *)
(* of the floating-point operations themselves.                            *)
(***************************************************************************)
EXTENDS Integers, Sequences, FiniteSets, TLC

(***************************************************************************)
(* Exact rational arithmetic                                               *)
(***************************************************************************)
Abs(a) == IF a < 0 THEN -a ELSE a

RECURSIVE GCD(_, _)
GCD(a, b) == IF b = 0 THEN a ELSE GCD(b, a % b)

Rat(n, d) ==
    LET g == GCD(Abs(n), Abs(d))
        s == IF d < 0 THEN -1 ELSE 1
    IN  <<(s * n) \div g, (s * d) \div g>>

I2R(i) == <<i, 1>>
Zero == <<0, 1>>
One == <<1, 1>>

RNeg(a) == <<-a[1], a[2]>>
RAdd(a, b) ==
    LET g == GCD(a[2], b[2])
    IN  Rat(a[1] * (b[2] \div g) + b[1] * (a[2] \div g), (a[2] \div g) * b[2])
RSub(a, b) == RAdd(a, RNeg(b))
RMul(a, b) ==
    LET g1 == GCD(Abs(a[1]), b[2])
        g2 == GCD(Abs(b[1]), a[2])
    IN  <<(a[1] \div g1) * (b[1] \div g2), (a[2] \div g2) * (b[2] \div g1)>>
RDiv(a, b) ==
    IF b[1] > 0 THEN RMul(a, <<b[2], b[1]>>) ELSE RMul(a, <<-b[2], -b[1]>>)
RHalf(a) == RMul(a, <<1, 2>>)
RSign(a) == IF a[1] > 0 THEN 1 ELSE IF a[1] < 0 THEN -1 ELSE 0
RLt(a, b) ==
    IF a[2] = b[2] THEN a[1] < b[1]
    ELSE LET g == GCD(a[2], b[2])
         IN  a[1] * (b[2] \div g) < b[1] * (a[2] \div g)
RLe(a, b) == ~RLt(b, a)
RAbs(a) == <<Abs(a[1]), a[2]>>
RMin(a, b) == IF RLt(b, a) THEN b ELSE a

\* |a| < 1/K for a positive integer K, without forming K * |n|.
AbsLtInv(a, K) ==
    \/ a[1] = 0
    \/ LET q == a[2] \div Abs(a[1])
           r == a[2] % Abs(a[1])
       IN  q > K \/ (q = K /\ r # 0)

\* a < 1/K, a > 1/K, a >= -1/K, a <= 1/K  (K a positive integer)
LtInv(a, K) == a[1] <= 0 \/ AbsLtInv(a, K)
GtInv(a, K) == a[1] > 0 /\ (a[2] \div a[1]) < K
GeNegInv(a, K) == a[1] >= 0 \/ (a[2] \div (-a[1])) >= K
LeInv(a, K) == ~GtInv(a, K)

\* floor of a rational, and the integer square root floor(sqrt(n))
RFloor(a) == a[1] \div a[2]
RECURSIVE ISqrtBetween(_, _, _)
ISqrtBetween(n, lo, hi) ==
    IF lo >= hi THEN lo
    ELSE LET m == (lo + hi + 1) \div 2
         IN  IF m <= n \div m THEN ISqrtBetween(n, m, hi)
             ELSE ISqrtBetween(n, lo, m - 1)
ISqrt(n) == IF n <= 0 THEN 0 ELSE ISqrtBetween(n, 0, IF n < 46340 THEN n ELSE 46340)

(***************************************************************************)
(* Program constants.  A tolerance 1/K is named by its K.                  *)
(***************************************************************************)
EpsInv == 1000000000
ClampInv == 100000000
DedupInv == 10000000
MarginInv == 10000000
MinSegInv == 100000
TrimTolInv == 1000000
TrimMinSegInv == 1000000
MinSamples == 60
FilterLenPerSample == 4
TrimLenPerSample == 8

(***************************************************************************)
(* myStructs.Point / myStructs.Edge, and sequences of them                 *)
(***************************************************************************)
Point(x, y) == [x |-> x, y |-> y]
Edge(s, e) == [start |-> s, end |-> e]
IPoint(i, j) == Point(I2R(i), I2R(j))

\* Point.__lt__ and the sort key (p.x, p.y)
PointLt(p, q) == IF p.x # q.x THEN RLt(p.x, q.x) ELSE RLt(p.y, q.y)

RECURSIVE InsertSorted(_, _)
InsertSorted(s, p) ==
    IF s = <<>> THEN <<p>>
    ELSE IF PointLt(p, Head(s)) THEN <<p>> \o s
    ELSE <<Head(s)>> \o InsertSorted(Tail(s), p)

\* the points left in the order they come in
KeepOrder(s) == s

\* sorted(pts, key=lambda p: (p.x, p.y)): stable, ascending
RECURSIVE SortPoints(_)
SortPoints(s) ==
    IF s = <<>> THEN <<>>
    ELSE InsertSorted(SortPoints(SubSeq(s, 1, Len(s) - 1)), s[Len(s)])

Reverse(s) == [i \in 1..Len(s) |-> s[Len(s) + 1 - i]]

(***************************************************************************)
(* _perp_bisector.  The program scales the direction to unit length; the   *)
(* model keeps the direction (-dy, dx) unscaled, a positive multiple of    *)
(* the program's.  Every use of the direction below is invariant under a   *)
(* positive scaling except the two tests "abs(component) < EPS", which are *)
(* carried out on the ratio of the components (UnitCompBelowEps).          *)
(***************************************************************************)
\* the bisector with the direction of the segment p1-p2 itself
perp_bisector_along(p1, p2) ==
    [mid  |-> Point(RHalf(RAdd(p1.x, p2.x)), RHalf(RAdd(p1.y, p2.y))),
     dirv |-> Point(RSub(p2.x, p1.x), RSub(p2.y, p1.y))]

perp_bisector(p1, p2) ==
    [mid  |-> Point(RHalf(RAdd(p1.x, p2.x)), RHalf(RAdd(p1.y, p2.y))),
     dirv |-> Point(RNeg(RSub(p2.y, p1.y)), RSub(p2.x, p1.x))]

\* abs(c / hypot(c, o)) < EPS, for a direction (c, o) that is not (0, 0):
\* c = 0, or (o/c)^2 > 1/EPS^2 - 1, which for a 32-bit ratio p/q is
\* p >= q / EPS.
UnitCompBelowEps(c, o) ==
    \/ c[1] = 0
    \/ RFloor(RAbs(RDiv(o, c))) >= EpsInv

\* the range test without its upper limit
WithinEpsNoUpper(v, lim) == GeNegInv(v, EpsInv)

\* -EPS <= v <= lim + EPS
WithinEps(v, lim) == GeNegInv(v, EpsInv) /\ LeInv(RSub(v, I2R(lim)), EpsInv)

(***************************************************************************)
(* _unique_points_on_rect: snap to the rectangle's sides within 1e-8, drop *)
(* a point within 1e-7 (in both coordinates) of one already kept, sort.    *)
(***************************************************************************)
Clamp(v, lim) ==
    IF AbsLtInv(v, ClampInv) THEN Zero
    ELSE IF AbsLtInv(RSub(v, I2R(lim)), ClampInv) THEN I2R(lim)
    ELSE v

NearPoint(p, q) ==
    AbsLtInv(RSub(p.x, q.x), DedupInv) /\ AbsLtInv(RSub(p.y, q.y), DedupInv)

\* the clamped point c is kept unless it is near a point already kept
ClampKeep(out, c) ==
    IF \E i \in 1..Len(out) : NearPoint(out[i], c) THEN out ELSE Append(out, c)

RECURSIVE ClampDedup(_, _, _, _)
ClampDedup(pts, out, w, h) ==
    IF pts = <<>> THEN out
    ELSE ClampDedup(Tail(pts),
                    ClampKeep(out, Point(Clamp(Head(pts).x, w), Clamp(Head(pts).y, h))),
                    w, h)

unique_points_on_rect(pts, w, h) == SortPoints(ClampDedup(pts, <<>>, w, h))

(***************************************************************************)
(* _intersect_line_with_rect: the points where the line mid + t * dirv     *)
(* meets the boundary of [0,w] x [0,h].                                    *)
(***************************************************************************)
\* the parameters t at which the line meets x = 0, x = w, y = 0 and y = h
Candidates(mid, dirv, w, h) ==
    <<RDiv(RSub(Zero, mid.x), dirv.x), RDiv(RSub(I2R(w), mid.x), dirv.x),
      RDiv(RSub(Zero, mid.y), dirv.y), RDiv(RSub(I2R(h), mid.y), dirv.y)>>

\* the points mid + t * dirv for the parameters t of candidates
CandidatePoints(mid, dirv, candidates) ==
    [i \in 1..4 |-> Point(RAdd(mid.x, RMul(candidates[i], dirv.x)),
                          RAdd(mid.y, RMul(candidates[i], dirv.y)))]

intersect_line_with_rect(mid, dirv, w, h) ==
    unique_points_on_rect(
        IF UnitCompBelowEps(dirv.x, dirv.y)
        THEN IF WithinEps(mid.x, w)
             THEN <<Point(mid.x, Zero), Point(mid.x, I2R(h))>> ELSE <<>>
        ELSE IF UnitCompBelowEps(dirv.y, dirv.x)
        THEN IF WithinEps(mid.y, h)
             THEN <<Point(Zero, mid.y), Point(I2R(w), mid.y)>> ELSE <<>>
        ELSE SelectSeq(CandidatePoints(mid, dirv, Candidates(mid, dirv, w, h)),
                       LAMBDA p : WithinEps(p.x, w) /\ WithinEps(p.y, h)),
        w, h)

\* the line through the point "through" (through the bisector's own midpoint
\* when usemid) along the bisector bis, cut by the rectangle
ThroughInRect(bis, through, usemid, w, h) ==
    intersect_line_with_rect(IF usemid THEN bis.mid ELSE through, bis.dirv, w, h)

(***************************************************************************)
(* _voronoi_two_points: the bisector of two sites clipped to the rectangle *)
(***************************************************************************)
\* the edge from the first to the last intersection point, if there are two
ChordOf(inters) ==
    IF Len(inters) < 2 THEN <<>> ELSE <<Edge(inters[1], inters[Len(inters)])>>

voronoi_two_points(p1, p2, w, h) ==
    IF AbsLtInv(RSub(p1.x, p2.x), EpsInv) /\ AbsLtInv(RSub(p1.y, p2.y), EpsInv)
    THEN <<>>
    ELSE ChordOf(ThroughInRect(perp_bisector(p1, p2), p1, TRUE, w, h))

(***************************************************************************)
(* Bounds of the model.  The program refines a keep/drop transition with   *)
(* 20 (classifier) and 30 (trimmer) halvings; the model runs the same loop *)
(* for FilterRounds and TrimRounds halvings, so that a boundary is located *)
(* to within 1/2^rounds of one sampling interval.                          *)
(***************************************************************************)
FilterRounds == 2
TrimRounds == 2

(***************************************************************************)
(* Distances.  The program compares d = (x - s.x)^2 + (y - s.y)^2 between  *)
(* sites at one point (x, y).  The model carries d - (x^2 + y^2), which is *)
(* linear in (x, y) and differs from d by the same amount for every site:  *)
(* every comparison and every difference of two distances from the same    *)
(* point is unchanged.  The value is s.x^2 + s.y^2 - 2 (x s.x + y s.y),    *)
(* returned over the common denominator of x, y and s (not in lowest       *)
(* terms).                                                                 *)
(***************************************************************************)
RelDist(x, y, s) ==
    LET g == GCD(x[2], y[2])
        D == (x[2] \div g) * y[2]
        X == x[1] * (y[2] \div g)
        Y == y[1] * (x[2] \div g)
        a == s.x[1]
        c == s.x[2]
        b == s.y[1]
        e == s.y[2]
    IN  <<D * (a * a * e * e + b * b * c * c) - 2 * c * e * (X * a * e + Y * b * c),
          D * c * c * e * e>>

\* squared length of the segment from a to b
SqSum(dx, dy) == RAdd(RMul(dx, dx), RMul(dy, dy))
LenSq(a, b) == SqSum(RSub(b.x, a.x), RSub(b.y, a.y))

\* hypot(b - a) against 1/K, as -1, 0 or 1.  A component above 1/K makes
\* the segment longer than 1/K; otherwise both components times K are at
\* most 1 and their squares are summed exactly (no sum is needed when the
\* two add up to 1 or less).
InvScaled(d, K) == Rat(Abs(d[1]) * K, d[2])
SqSumVsOne(u, v) ==
    IF RLe(RAdd(u, v), One)
    THEN IF RAdd(u, v) = One /\ (u = Zero \/ v = Zero) THEN 0 ELSE -1
    ELSE RSign(RSub(SqSum(u, v), One))
LenVsInv(dx, dy, K) ==
    IF GtInv(RAbs(dx), K) \/ GtInv(RAbs(dy), K) THEN 1
    ELSE SqSumVsOne(InvScaled(dx, K), InvScaled(dy, K))
\* hypot(b - a) < 1/K and hypot(b - a) > 1/K
LenLtInv(a, b, K) == LenVsInv(RSub(b.x, a.x), RSub(b.y, a.y), K) < 0
LenGtInv(a, b, K) == LenVsInv(RSub(b.x, a.x), RSub(b.y, a.y), K) > 0

\* samples = max(MinSamples, int(seg_len / per)).  seg_len <= |dx| + |dy|,
\* so the quotient cannot exceed MinSamples when (|dx| + |dy|) / per is
\* below MinSamples + 1; otherwise it is floor(sqrt(seg_len^2 / per^2)).
MaxOf(i, j) == IF i > j THEN i ELSE j
SampleCount(a, b, per) ==
    IF RLt(RAdd(RAbs(RSub(b.x, a.x)), RAbs(RSub(b.y, a.y))), I2R(per * (MinSamples + 1)))
    THEN MinSamples
    ELSE MaxOf(MinSamples, ISqrt(RFloor(RMul(LenSq(a, b), <<1, per * per>>))))

\* a + t * (b - a) for one coordinate, and the point a + t * (b - a)
Lerp1(a, b, t) ==
    LET g == GCD(a[2], b[2])
        an == a[1] * (b[2] \div g)
        bn == b[1] * (a[2] \div g)
    IN  Rat(an * t[2] + t[1] * (bn - an), (a[2] \div g) * b[2] * t[2])

Lerp(a, b, t) == Point(Lerp1(a.x, b.x, t), Lerp1(a.y, b.y, t))

\* indices 1..Len(d) stably sorted by the keys d (sorted / heapq.nsmallest)
RECURSIVE InsertByKey(_, _, _)
InsertByKey(order, i, d) ==
    IF order = <<>> THEN <<i>>
    ELSE IF RLt(d[i], d[Head(order)]) THEN <<i>> \o order
    ELSE <<Head(order)>> \o InsertByKey(Tail(order), i, d)

RECURSIVE SortedIdx(_, _)
SortedIdx(n, d) ==
    IF n = 0 THEN <<>> ELSE InsertByKey(SortedIdx(n - 1, d), n, d)

(***************************************************************************)
(* _filter_segment_by_closest_pair.is_valid: at parameter t of segment AB  *)
(* the two nearest sites are site_a and site_b, and the nearest is closer  *)
(* than the third nearest by more than 1e-7.                               *)
(***************************************************************************)
\* the validity test that does not ask the two nearest sites to be the pair
\* the squared distances from pt to every site (line 572), and the first
\* three of an order (line 577)
SiteDists(pt, all_sites) ==
    [i \in 1..Len(all_sites) |-> RelDist(pt.x, pt.y, all_sites[i])]
FirstThree(order) == SubSeq(order, 1, IF Len(order) < 3 THEN Len(order) ELSE 3)

\* the validity test that does not ask the two nearest sites to be the pair
NearestNoPair(dists, closest_3) ==
    IF Len(closest_3) < 3 THEN TRUE
    ELSE GtInv(RSub(dists[closest_3[3]], dists[closest_3[1]]), MarginInv)
DistsNoPair(dists) == NearestNoPair(dists, FirstThree(SortedIdx(Len(dists), dists)))
is_valid_nopair(A, B, site_a, site_b, all_sites, t) ==
    DistsNoPair(SiteDists(Lerp(A, B, t), all_sites))

\* the decision that accepts the pair when both its sites are among the
\* three nearest, in any position
ValidNearestAnyPair(dists, closest_3, site_a, site_b, all_sites) ==
    IF Len(closest_3) < 2 THEN TRUE
    ELSE /\ \E i \in 1..Len(closest_3) : all_sites[closest_3[i]] = site_a
         /\ \E i \in 1..Len(closest_3) : all_sites[closest_3[i]] = site_b
         /\ IF Len(closest_3) >= 3
            THEN GtInv(RSub(dists[closest_3[3]], dists[closest_3[1]]), MarginInv)
            ELSE TRUE

\* lines 579-596: the decision on the (at most) three nearest sites
ValidNearest(dists, closest_3, site_a, site_b, all_sites) ==
    IF Len(closest_3) < 2 THEN TRUE
    ELSE LET s0 == all_sites[closest_3[1]]
             s1 == all_sites[closest_3[2]]
             cond_pair == \/ (s0 = site_a /\ s1 = site_b)
                          \/ (s0 = site_b /\ s1 = site_a)
             strictly_closer ==
                 IF Len(closest_3) >= 3
                 THEN GtInv(RSub(dists[closest_3[3]], dists[closest_3[1]]), MarginInv)
                 ELSE TRUE
         IN  cond_pair /\ strictly_closer

ValidDists(dists, site_a, site_b, all_sites) ==
    ValidNearest(dists, FirstThree(SortedIdx(Len(all_sites), dists)),
                 site_a, site_b, all_sites)

\* with two sites the two nearest are those two, in one order or the other,
\* whatever the distances: they are not computed
is_valid(A, B, site_a, site_b, all_sites, t) ==
    IF Len(all_sites) = 2
    THEN \/ (all_sites[1] = site_a /\ all_sites[2] = site_b)
         \/ (all_sites[1] = site_b /\ all_sites[2] = site_a)
    ELSE ValidDists(SiteDists(Lerp(A, B, t), all_sites), site_a, site_b, all_sites)

\* find_boundary: t_in valid, t_out not; returns the valid end
RECURSIVE find_boundary(_, _, _, _, _, _, _, _)
find_boundary(A, B, site_a, site_b, all_sites, low, high, rounds) ==
    IF rounds = 0 THEN low
    ELSE LET mid == RHalf(RAdd(low, high))
         IN  IF is_valid(A, B, site_a, site_b, all_sites, mid)
             THEN find_boundary(A, B, site_a, site_b, all_sites, mid, high, rounds - 1)
             ELSE find_boundary(A, B, site_a, site_b, all_sites, low, mid, rounds - 1)

\* the inline loop of lines 645-652: _low not valid, _high valid; returns _high
RECURSIVE find_start(_, _, _, _, _, _, _, _)
find_start(A, B, site_a, site_b, all_sites, low, high, rounds) ==
    IF rounds = 0 THEN high
    ELSE LET mid == RHalf(RAdd(low, high))
         IN  IF is_valid(A, B, site_a, site_b, all_sites, mid)
             THEN find_start(A, B, site_a, site_b, all_sites, low, mid, rounds - 1)
             ELSE find_start(A, B, site_a, site_b, all_sites, mid, high, rounds - 1)

\* one pass of the loop of lines 623-663 at sample i; st holds in_seg,
\* seg_start_t and the segments found so far
FilterStep(A, B, site_a, site_b, all_sites, mask, samples, st, i) ==
    LET ts_i == Rat(i, samples - 1)
        ts_p == Rat(i - 1, samples - 1)
    IN  IF mask[i] /\ ~st.in_seg
        THEN [st EXCEPT !.in_seg = TRUE,
                        !.seg_start_t =
                            IF i = 0 THEN Zero
                            ELSE find_start(A, B, site_a, site_b, all_sites, ts_p, ts_i,
                                            FilterRounds)]
        ELSE IF ~mask[i] /\ st.in_seg
        THEN [st EXCEPT !.in_seg = FALSE,
                        !.segs = Append(st.segs,
                            Edge(Lerp(A, B, st.seg_start_t),
                                 Lerp(A, B, find_boundary(A, B, site_a, site_b, all_sites,
                                                          ts_p, ts_i, FilterRounds))))]
        ELSE st

\* the loop "for i in range(lo, hi)" of FilterStep, split in halves so that
\* the evaluation stays shallow (the test on half makes TLC compute it first)
RECURSIVE FilterLoop(_, _, _, _, _, _, _, _, _, _)
FilterLoop(A, B, site_a, site_b, all_sites, mask, samples, st, lo, hi) ==
    IF hi - lo = 1 THEN FilterStep(A, B, site_a, site_b, all_sites, mask, samples, st, lo)
    ELSE LET m == (lo + hi) \div 2
             half == FilterLoop(A, B, site_a, site_b, all_sites, mask, samples, st, lo, m)
         IN  IF half.in_seg \in BOOLEAN
             THEN FilterLoop(A, B, site_a, site_b, all_sites, mask, samples, half, m, hi)
             ELSE half

(***************************************************************************)
(* _filter_segment_by_closest_pair: the parts of segment AB on which       *)
(* site_a and site_b are the two nearest sites, longer than 1e-5.          *)
(***************************************************************************)
\* valid_mask of line 616
ValidMask(A, B, site_a, site_b, all_sites, samples) ==
    [i \in 0..(samples - 1) |->
        is_valid(A, B, site_a, site_b, all_sites, Rat(i, samples - 1))]

\* the scan that forgets a segment still open at the end
FilterCloseNone(A, B, st) == st.segs

\* lines 665-669: a segment still open after the scan ends at B
FilterClose(A, B, st) ==
    IF st.in_seg THEN Append(st.segs, Edge(Lerp(A, B, st.seg_start_t), B)) ELSE st.segs

\* lines 612-669 for a given number of samples
FilterScan(A, B, site_a, site_b, all_sites, samples) ==
    FilterClose(A, B,
        FilterLoop(A, B, site_a, site_b, all_sites,
                   ValidMask(A, B, site_a, site_b, all_sites, samples), samples,
                   [in_seg |-> FALSE, seg_start_t |-> Zero, segs |-> <<>>],
                   0, samples))

filter_segment_by_closest_pair(A, B, site_a, site_b, all_sites) ==
    IF LenLtInv(A, B, EpsInv) THEN <<>>
    ELSE SelectSeq(FilterScan(A, B, site_a, site_b, all_sites,
                              SampleCount(A, B, FilterLenPerSample)),
                   LAMBDA e : LenGtInv(e.start, e.end, MinSegInv))

\* the classifier applied between the first and the last intersection point
FilterChord(inters, site_a, site_b, all_sites) ==
    IF Len(inters) < 2 THEN <<>>
    ELSE filter_segment_by_closest_pair(inters[1], inters[Len(inters)],
                                        site_a, site_b, all_sites)

(***************************************************************************)
(* _compute_single_bisector_segment and _compute_dividing_chain            *)
(***************************************************************************)
compute_single_bisector_segment(pL, pR, all_sites, w, h) ==
    FilterChord(ThroughInRect(perp_bisector(pL, pR), pL, TRUE, w, h), pL, pR, all_sites)

RECURSIVE ConcatAll(_)
ConcatAll(ss) == IF ss = <<>> THEN <<>> ELSE Head(ss) \o ConcatAll(Tail(ss))

compute_dividing_chain(left_points, right_points, w, h, all_sites) ==
    IF left_points = <<>> \/ right_points = <<>> THEN <<>>
    ELSE ConcatAll([k \in 1..(Len(left_points) * Len(right_points)) |->
             compute_single_bisector_segment(
                 left_points[((k - 1) \div Len(right_points)) + 1],
                 right_points[((k - 1) % Len(right_points)) + 1],
                 all_sites, w, h)])

(***************************************************************************)
(* _side_value: dR - dL, the squared distance to the nearest right site    *)
(* minus the squared distance to the nearest left site.                    *)
(***************************************************************************)
RECURSIVE MinRelDist(_, _, _)
MinRelDist(x, y, sites) ==
    IF Len(sites) = 1 THEN RelDist(x, y, sites[1])
    ELSE RMin(MinRelDist(x, y, SubSeq(sites, 1, Len(sites) - 1)),
              RelDist(x, y, sites[Len(sites)]))

side_value(x, y, left_sites, right_sites) ==
    RSub(MinRelDist(x, y, right_sites), MinRelDist(x, y, left_sites))

\* _trim_edges_by_hp.is_keep
is_keep(val, keep_left) ==
    IF keep_left THEN GeNegInv(val, TrimTolInv) ELSE LeInv(val, TrimTolInv)

KeepPoint(pt, left_sites, right_sites, keep_left) ==
    is_keep(side_value(pt.x, pt.y, left_sites, right_sites), keep_left)
KeepAt(e, t, left_sites, right_sites, keep_left) ==
    KeepPoint(Lerp(e.start, e.end, t), left_sites, right_sites, keep_left)

\* the bisection that returns the dropped end
RECURSIVE bisect_boundary_drop(_, _, _, _, _, _, _)
bisect_boundary_drop(e, left_sites, right_sites, keep_left, lo, hi, rounds) ==
    IF rounds = 0 THEN hi
    ELSE LET mid == RHalf(RAdd(lo, hi))
         IN  IF KeepAt(e, mid, left_sites, right_sites, keep_left)
             THEN bisect_boundary_drop(e, left_sites, right_sites, keep_left, mid, hi, rounds - 1)
             ELSE bisect_boundary_drop(e, left_sites, right_sites, keep_left, lo, mid, rounds - 1)

\* _trim_edges_by_hp.bisect_boundary: t_keep kept, t_drop dropped; returns
\* the kept end
RECURSIVE bisect_boundary(_, _, _, _, _, _, _)
bisect_boundary(e, left_sites, right_sites, keep_left, lo, hi, rounds) ==
    IF rounds = 0 THEN lo
    ELSE LET mid == RHalf(RAdd(lo, hi))
         IN  IF KeepAt(e, mid, left_sites, right_sites, keep_left)
             THEN bisect_boundary(e, left_sites, right_sites, keep_left, mid, hi, rounds - 1)
             ELSE bisect_boundary(e, left_sites, right_sites, keep_left, lo, mid, rounds - 1)

\* the emission without a length test
EmitAlways(sp, endpt) == <<Edge(sp, endpt)>>

\* an edge of the output if it is longer than 1e-6
EmitIfLong(sp, endpt) ==
    IF LenGtInv(sp, endpt, TrimMinSegInv) THEN <<Edge(sp, endpt)>> ELSE <<>>
TrimEmit(e, s_t, endpt) == EmitIfLong(Lerp(e.start, e.end, s_t), endpt)

\* one pass of the loop of lines 781-809 over the interval [ts[i], ts[i+1]];
\* st.has_start / st.start_t stand for current_start_t (None when ~has_start)
\* lines 786-787: a kept sample opens a run when none is open
TrimOpen(st, k0, t0) ==
    IF k0 /\ ~st.has_start THEN [st EXCEPT !.has_start = TRUE, !.start_t = t0] ELSE st

\* lines 789-809: where the flags differ, the run ends (kept -> dropped) or
\* starts (dropped -> kept) at the refined boundary t_b
TrimCross(e, k0, k1, s1, t_b) ==
    IF k0 = k1 THEN s1
    ELSE IF k0 /\ ~k1
    THEN [s1 EXCEPT !.has_start = FALSE,
                    !.trimmed = s1.trimmed \o
                        TrimEmit(e, s1.start_t, Lerp(e.start, e.end, t_b))]
    ELSE [s1 EXCEPT !.has_start = TRUE, !.start_t = t_b]

\* the interval [t0, t1] with flags k0, k1; the boundary is refined from the
\* kept end towards the dropped end
TrimAt(e, left_sites, right_sites, keep_left, k0, k1, t0, t1, st) ==
    TrimCross(e, k0, k1, TrimOpen(st, k0, t0),
              IF k0 = k1 THEN Zero
              ELSE bisect_boundary(e, left_sites, right_sites, keep_left,
                                   IF k0 THEN t0 ELSE t1, IF k0 THEN t1 ELSE t0,
                                   TrimRounds))

TrimStep(e, left_sites, right_sites, keep_left, keep_flags, samples, st, i) ==
    TrimAt(e, left_sites, right_sites, keep_left, keep_flags[i], keep_flags[i + 1],
           Rat(i, samples - 1), Rat(i + 1, samples - 1), st)

RECURSIVE TrimLoop(_, _, _, _, _, _, _, _, _)
TrimLoop(e, left_sites, right_sites, keep_left, keep_flags, samples, st, lo, hi) ==
    IF hi - lo = 1
    THEN TrimStep(e, left_sites, right_sites, keep_left, keep_flags, samples, st, lo)
    ELSE LET m == (lo + hi) \div 2
             half == TrimLoop(e, left_sites, right_sites, keep_left, keep_flags, samples,
                              st, lo, m)
         IN  IF half.has_start \in BOOLEAN
             THEN TrimLoop(e, left_sites, right_sites, keep_left, keep_flags, samples,
                           half, m, hi)
             ELSE half

\* the body of "for e in edges" (lines 743-818) for one edge
\* keep_flags of lines 756-761
KeepFlags(e, left_sites, right_sites, keep_left, samples) ==
    [i \in 0..(samples - 1) |->
        KeepAt(e, Rat(i, samples - 1), left_sites, right_sites, keep_left)]

\* lines 812-818: a run still open after the scan ends at the edge's end
TrimClose(e, st, last_kept) ==
    IF st.has_start /\ last_kept
    THEN st.trimmed \o TrimEmit(e, st.start_t, e.end)
    ELSE st.trimmed

TrimScan(e, left_sites, right_sites, keep_left, keep_flags, samples) ==
    TrimClose(e,
        TrimLoop(e, left_sites, right_sites, keep_left, keep_flags, samples,
                 [has_start |-> FALSE, start_t |-> Zero, trimmed |-> <<>>],
                 0, samples - 1),
        keep_flags[samples - 1])

TrimSampled(e, left_sites, right_sites, keep_left, samples) ==
    TrimScan(e, left_sites, right_sites, keep_left,
             KeepFlags(e, left_sites, right_sites, keep_left, samples), samples)

\* the body of "for e in edges" (lines 743-818) for one edge
TrimOne(e, left_sites, right_sites, keep_left) ==
    TrimSampled(e, left_sites, right_sites, keep_left,
                SampleCount(e.start, e.end, TrimLenPerSample))

\* the trimmer that keeps every edge whole
trim_edges_by_hp_whole(edges, left_sites, right_sites, keep_left) == edges

(***************************************************************************)
(* _trim_edges_by_hp: of every edge, the parts on the side of its own      *)
(* sites (f >= -1e-6 for a left edge, f <= 1e-6 for a right edge).         *)
(***************************************************************************)
trim_edges_by_hp(edges, left_sites, right_sites, keep_left) ==
    ConcatAll([k \in 1..Len(edges) |-> TrimOne(edges[k], left_sites, right_sites, keep_left)])

\* the centre with the first term of uy taken with the opposite sign
\* x^2 + y^2 of a point, and the denominator d of line 905
SqNorm(p) == RAdd(RMul(p.x, p.x), RMul(p.y, p.y))
CircumD(a, b, c) ==
    RMul(I2R(2), RAdd(RAdd(RMul(a.x, RSub(b.y, c.y)), RMul(b.x, RSub(c.y, a.y))),
                      RMul(c.x, RSub(a.y, b.y))))

\* the centre with the first term of uy taken with the opposite sign
CircumAtSlip(a, b, c, d, sa, sb, sc) ==
    IF AbsLtInv(d, EpsInv) THEN <<>>
    ELSE <<Point(
             RDiv(RAdd(RAdd(RMul(sa, RSub(b.y, c.y)), RMul(sb, RSub(c.y, a.y))),
                       RMul(sc, RSub(a.y, b.y))), d),
             RDiv(RAdd(RAdd(RMul(sa, RSub(b.x, c.x)), RMul(sb, RSub(a.x, c.x))),
                       RMul(sc, RSub(b.x, a.x))), d))>>
circumcenter_slip(a, b, c) ==
    CircumAtSlip(a, b, c, CircumD(a, b, c), SqNorm(a), SqNorm(b), SqNorm(c))

(***************************************************************************)
(* _circumcenter: None (<<>> here) when |d| < EPS, else <<centre>>         *)
(***************************************************************************)
\* lines 906-910 for the denominator d and the squared norms sa, sb, sc
CircumAt(a, b, c, d, sa, sb, sc) ==
    IF AbsLtInv(d, EpsInv) THEN <<>>
    ELSE <<Point(
             RDiv(RAdd(RAdd(RMul(sa, RSub(b.y, c.y)), RMul(sb, RSub(c.y, a.y))),
                       RMul(sc, RSub(a.y, b.y))), d),
             RDiv(RAdd(RAdd(RMul(sa, RSub(c.x, b.x)), RMul(sb, RSub(a.x, c.x))),
                       RMul(sc, RSub(b.x, a.x))), d))>>

circumcenter(a, b, c) ==
    CircumAt(a, b, c, CircumD(a, b, c), SqNorm(a), SqNorm(b), SqNorm(c))

(***************************************************************************)
(* _voronoi_three_points                                                   *)
(***************************************************************************)
ThreePair(through, usemid, a, b, site_list, w, h) ==
    FilterChord(ThroughInRect(perp_bisector(a, b), through, usemid, w, h),
                a, b, site_list)

\* the pairs in the order the program takes them: (p1,p2), (p1,p3), (p2,p3)
\* for collinear sites, (p1,p2), (p2,p3), (p3,p1) otherwise
ThreePairs(p1, p2, p3, collinear) ==
    IF collinear THEN <<<<p1, p2>>, <<p1, p3>>, <<p2, p3>>>>
    ELSE <<<<p1, p2>>, <<p2, p3>>, <<p3, p1>>>>

\* every pair's bisector, drawn through its midpoint when there is no
\* circumcentre (cc = <<>>) and through the circumcentre cc[1] otherwise
ThreeEdges(cc, pairs, site_list, w, h) ==
    ConcatAll([k \in 1..3 |->
        ThreePair(IF cc = <<>> THEN pairs[k][1] ELSE cc[1], cc = <<>>,
                  pairs[k][1], pairs[k][2], site_list, w, h)])

ThreeAround(cc, p1, p2, p3, w, h) ==
    ThreeEdges(cc, ThreePairs(p1, p2, p3, cc = <<>>), <<p1, p2, p3>>, w, h)

voronoi_three_points(points, w, h) ==
    ThreeAround(circumcenter(points[1], points[2], points[3]),
                points[1], points[2], points[3], w, h)

(***************************************************************************)
(* _convex_hull_simple: monotone chain, popping while cross <= 0           *)
(***************************************************************************)
cross(o, a, b) ==
    RSub(RMul(RSub(a.x, o.x), RSub(b.y, o.y)), RMul(RSub(a.y, o.y), RSub(b.x, o.x)))

\* the turn test that pops on a right turn only and keeps collinear points
RECURSIVE PopWhileStrict(_, _)
PopWhileStrict(chain, p) ==
    IF Len(chain) >= 2 /\ RSign(cross(chain[Len(chain) - 1], chain[Len(chain)], p)) < 0
    THEN PopWhileStrict(SubSeq(chain, 1, Len(chain) - 1), p)
    ELSE chain

RECURSIVE PopWhile(_, _)
PopWhile(chain, p) ==
    IF Len(chain) >= 2 /\ RSign(cross(chain[Len(chain) - 1], chain[Len(chain)], p)) <= 0
    THEN PopWhile(SubSeq(chain, 1, Len(chain) - 1), p)
    ELSE chain

RECURSIVE HalfHull(_, _)
HalfHull(pts, chain) ==
    IF pts = <<>> THEN chain
    ELSE HalfHull(Tail(pts), Append(PopWhile(chain, Head(pts)), Head(pts)))

\* line 896: both chains without their last point
JoinChains(lower, upper) ==
    SubSeq(lower, 1, Len(lower) - 1) \o SubSeq(upper, 1, Len(upper) - 1)
HullOfSorted(pts_sorted) ==
    JoinChains(HalfHull(pts_sorted, <<>>), HalfHull(Reverse(pts_sorted), <<>>))

convex_hull_simple(pts) ==
    IF Len(pts) <= 1 THEN pts ELSE HullOfSorted(SortPoints(pts))

(***************************************************************************)
(* VoronoiDiagram, MergeStep and _merge_diagrams                           *)
(***************************************************************************)
VoronoiDiagram(edges, hull) == [edges |-> edges, hull |-> hull]

\* the merged diagram with the dividing chain in front of the trimmed edges
MergeOfChainFirst(left, right, left_points, right_points, median_x, hp_edges, trimmed_left, trimmed_right, merged_hull) ==
    [diagram |-> VoronoiDiagram(hp_edges \o trimmed_left \o trimmed_right, merged_hull),
     step |-> [left_edges |-> trimmed_left,
               right_edges |-> trimmed_right,
               hyperplane_edges |-> hp_edges,
               left_hull |-> left.hull,
               right_hull |-> right.hull,
               merged_hull |-> merged_hull,
               median_x |-> median_x,
               left_sites |-> left_points,
               right_sites |-> right_points]]

\* lines 231-253: the merged diagram and the MergeStep, from the parts
MergeOf(left, right, left_points, right_points, median_x, hp_edges, trimmed_left, trimmed_right, merged_hull) ==
    [diagram |-> VoronoiDiagram(trimmed_left \o trimmed_right \o hp_edges, merged_hull),
     step |-> [left_edges |-> trimmed_left,
               right_edges |-> trimmed_right,
               hyperplane_edges |-> hp_edges,
               left_hull |-> left.hull,
               right_hull |-> right.hull,
               merged_hull |-> merged_hull,
               median_x |-> median_x,
               left_sites |-> left_points,
               right_sites |-> right_points]]

\* the merge whose hull is stitched from the hulls of its children
MergeResultStitched(left, right, left_points, right_points, median_x, w, h) ==
    MergeOf(left, right, left_points, right_points, median_x,
            compute_dividing_chain(left_points, right_points, w, h,
                                   left_points \o right_points),
            trim_edges_by_hp(left.edges, left_points, right_points, TRUE),
            trim_edges_by_hp(right.edges, left_points, right_points, FALSE),
            left.hull \o right.hull)

MergeResult(left, right, left_points, right_points, median_x, w, h) ==
    MergeOf(left, right, left_points, right_points, median_x,
            compute_dividing_chain(left_points, right_points, w, h,
                                   left_points \o right_points),
            trim_edges_by_hp(left.edges, left_points, right_points, TRUE),
            trim_edges_by_hp(right.edges, left_points, right_points, FALSE),
            convex_hull_simple(left_points \o right_points))

(***************************************************************************)
(* _unique_points: the first point of every key (round(x, 6), round(y, 6)) *)
(***************************************************************************)
\* the first k decimal digits of r/d (0 <= r < d) as an integer, and what is left
RECURSIVE Digits(_, _, _, _)
Digits(r, d, k, acc) ==
    IF k = 0 THEN <<acc, r>>
    ELSE Digits((r * 10) % d, d, k - 1, acc * 10 + ((r * 10) \div d))

\* round(v, 6) in units of 1e-6, as <<integer part, millionths>>; a tie goes
\* to the even neighbour
Round6(v) ==
    LET q == v[1] \div v[2]
        dr == Digits(v[1] % v[2], v[2], 6, 0)
        up == \/ 2 * dr[2] > v[2]
              \/ (2 * dr[2] = v[2] /\ dr[1] % 2 = 1)
        m == IF up THEN dr[1] + 1 ELSE dr[1]
    IN  IF m = 1000000 THEN <<q + 1, 0>> ELSE <<q, m>>

PointKey(p) == <<Round6(p.x), Round6(p.y)>>

\* lines 58-60 for one point p with key "key"; acc holds seen and out
UniqueStep(acc, p, key) ==
    IF key \in acc.seen THEN acc
    ELSE [seen |-> acc.seen \cup {key}, out |-> Append(acc.out, p)]

RECURSIVE UniqueFrom(_, _)
UniqueFrom(pts, acc) ==
    IF pts = <<>> THEN acc.out
    ELSE UniqueFrom(Tail(pts), UniqueStep(acc, Head(pts), PointKey(Head(pts))))

\* deduplication on the exact coordinates instead of the rounded key
RECURSIVE UniqueExact(_, _)
UniqueExact(pts, out) ==
    IF pts = <<>> THEN out
    ELSE IF \E i \in 1..Len(out) : out[i] = Head(pts)
         THEN UniqueExact(Tail(pts), out)
         ELSE UniqueExact(Tail(pts), Append(out, Head(pts)))
unique_points_exact(pts) == UniqueExact(pts, <<>>)

\* deduplication that keeps the last point of every key instead of the first
unique_points_last(pts) ==
    Reverse(UniqueFrom(Reverse(pts), [seen |-> {}, out |-> <<>>]))

unique_points(pts) == UniqueFrom(pts, [seen |-> {}, out |-> <<>>])

(***************************************************************************)
(* Bounds of the model and the inputs it draws                             *)
(***************************************************************************)
MaxSites == 5
MaxShuffled == 2

\* the sites an input is drawn from, inside and outside the rectangle
Universe ==
    <<IPoint(1, 1), IPoint(1, 3), IPoint(3, 1), IPoint(3, 3),
      IPoint(2, 1), IPoint(2, 3), IPoint(5, 5)>>
SmallW == 4
SmallH == 4

\* two points less than 1e-6 apart: they round to the same key
Twins == <<IPoint(1, 1), Point(Rat(10000002, 10000000), I2R(1))>>
TwinInputs ==
    {<<Twins[1], Twins[2]>>, <<Twins[2], Twins[1]>>, <<Twins[2], Twins[1], Twins[2]>>}

\* two sites whose bisector cuts the corner (0, 0) of the rectangle along a
\* chord about 5.7e-6 long
TinyCorner == <<IPoint(0, 0), Point(Rat(1, 250000), Rat(1, 250000))>>
TinyCornerInputs == {TinyCorner}

\* the scenario of the specification: sites in a 600 x 600 rectangle
Scenario == <<IPoint(0, 0), IPoint(10, 0), IPoint(5, 10)>>
CanvasSize == 600

\* four sites almost on one circle, in the 600 x 600 rectangle: the Voronoi
\* edge between (1,3) and (3,1) runs from (2,2) to (2.5,2.5) only
NearCocircular == <<IPoint(1, 1), IPoint(1, 3), IPoint(3, 1), IPoint(4, 3)>>
NearCocircularInputs == {NearCocircular}

RECURSIVE SetToSeq(_)
SetToSeq(S) ==
    IF S = {} THEN <<>>
    ELSE LET i == CHOOSE i \in S : \A j \in S : i <= j
         IN  <<i>> \o SetToSeq(S \ {i})

\* inputs: every subset of the universe of at most n sites, listed in the
\* universe's order; for the subsets of at most MaxShuffled sites also the
\* reverse order and the list followed by a repetition of each of its sites
Pick(U, S) == LET idx == SetToSeq(S) IN [k \in 1..Len(idx) |-> U[idx[k]]]
InputsOver(U, n) ==
    LET subs == {S \in SUBSET (1..Len(U)) : Cardinality(S) <= n}
        few == {S \in subs : Cardinality(S) <= MaxShuffled}
    IN  {Pick(U, S) : S \in subs}
        \cup {Reverse(Pick(U, S)) : S \in few}
        \cup {Pick(U, S) \o <<U[i]>> : S \in few, i \in 1..Len(U)}

(***************************************************************************)
(* State                                                                   *)
(***************************************************************************)
VARIABLES
    points,     \* the site sequence passed to the entry point
    canvas_w,   \* the rectangle
    canvas_h,
    pc,         \* "idle", "build" (inside _build_voronoi) or "done"
    recording,  \* TRUE in compute_voronoi_with_steps (steps is a list)
    sorted_pts, \* the deduplicated, sorted sites
    stack,      \* the active calls of _build_voronoi, innermost last
    steps,      \* the step sink
    edges,      \* the edges returned
    levels,     \* for each step of the sink, the depth of the call that appended it
    returned,   \* what the earlier calls of the entry points returned, oldest first
    call,       \* the helper function called on its own, with its arguments
    result,      \* what that call returned
    canvas_points,  \* MyCanvas._points
    canvas_edges,  \* MyCanvas._edges
    cached_steps,  \* AppWindow._steps: None or the list of MergeSteps
    step_idx,  \* AppWindow._step_idx
    sub_phase,  \* AppWindow._sub_phase
    status,  \* the message shown last (status bar or message box)
    saved,  \* the lines of the file written by Save
    file_manager,  \* AppWindow.file_manager: None or the FileInputManager
    reader_log  \* the calls made on the reader when it is used alone

vars ==
    <<points, canvas_w, canvas_h, pc, recording, sorted_pts, stack, steps, edges, levels,
      returned, call, result,
      canvas_points, canvas_edges, cached_steps, step_idx, sub_phase, status, saved, file_manager, reader_log>>

\* no helper function is called on its own during a run of the engine
NoCall == [fn |-> "none"]
NoResult == [fn |-> "none"]

\* FileInputManager.__init__ (lines 27-30); path stands for the text at that
\* path, _fp is the index of the next line to read while the file is open
NoFp == [open |-> FALSE, at |-> 1]
OpenedFp == [open |-> TRUE, at |-> 1]
FileInputManager(path) == [exists |-> TRUE, path |-> path, fp |-> NoFp, eof |-> FALSE]
NoManager == [exists |-> FALSE, path |-> <<>>, fp |-> NoFp, eof |-> FALSE]

\* AppWindow.__init__ (lines 99-186): no steps cached, nothing shown yet
NoSteps == [cached |-> FALSE, list |-> <<>>]
Cached(list) == [cached |-> TRUE, list |-> list]
Status(kind, step, of, phase) == [kind |-> kind, step |-> step, of |-> of, phase |-> phase]
Message(kind) == Status(kind, 0, 0, "")

Init ==
    /\ \/ /\ canvas_w = SmallW
          /\ canvas_h = SmallH
          /\ points \in InputsOver(Universe, MaxSites) \cup TwinInputs
       \/ /\ canvas_w = CanvasSize
          /\ canvas_h = CanvasSize
          /\ points \in InputsOver(Scenario, Len(Scenario)) \cup NearCocircularInputs
    /\ pc = "idle"
    /\ recording = FALSE
    /\ sorted_pts = <<>>
    /\ stack = <<>>
    /\ steps = <<>>
    /\ edges = <<>>
    /\ levels = <<>>
    /\ returned = <<>>
    /\ call = NoCall
    /\ result = NoResult
    /\ canvas_points = <<>>
    /\ canvas_edges = <<>>
    /\ cached_steps = NoSteps
    /\ step_idx = 0
    /\ sub_phase = 0
    /\ status = Message("Ready")
    /\ saved = <<>>
    /\ file_manager = NoManager
    /\ reader_log = <<>>

(***************************************************************************)
(* _build_voronoi as a machine: a frame is one active call.                *)
(*   at = "call"  : the call has just been made                            *)
(*   at = "left"  : waiting for the left child (line 165)                  *)
(*   at = "right" : waiting for the right child (line 166)                 *)
(*   at = "merge" : both children returned, about to merge (line 169)      *)
(***************************************************************************)
NoDiagram == VoronoiDiagram(<<>>, <<>>)

Frame(pts, depth) ==
    [points_sorted |-> pts, at |-> "call", depth |-> depth,
     left_diagram |-> NoDiagram, right_diagram |-> NoDiagram]

\* the middle index rounded up
MidCeil(f) == (Len(f.points_sorted) + 1) \div 2

\* mid = n // 2 (line 154)
Mid(f) == Len(f.points_sorted) \div 2
LeftPoints(f) == SubSeq(f.points_sorted, 1, Mid(f))
RightPoints(f) == SubSeq(f.points_sorted, Mid(f) + 1, Len(f.points_sorted))
MedianX(f) == RHalf(RAdd(LeftPoints(f)[Mid(f)].x, RightPoints(f)[1].x))
\* the right part first
ChildrenRightFirst(f) == <<RightPoints(f), LeftPoints(f)>>

\* the two recursive calls of lines 164-169, in the order they are made
Children(f) == <<LeftPoints(f), RightPoints(f)>>

\* the base cases taken in recording mode too
IsLeafSmall(f) == Len(f.points_sorted) \in {1, 2, 3}

\* the base case for a single site only, in either mode
IsLeafSingle(f) == Len(f.points_sorted) = 1

\* the base cases without the one for a single site
IsLeafNoSingle(f) == ~recording /\ Len(f.points_sorted) \in {2, 3}

\* the base cases of lines 132-149
IsLeaf(f) ==
    \/ Len(f.points_sorted) = 1
    \/ (~recording /\ Len(f.points_sorted) \in {2, 3})

LeafOf(ps, w, h) ==
    IF Len(ps) = 1 THEN VoronoiDiagram(<<>>, ps)
    ELSE IF Len(ps) = 2
    THEN VoronoiDiagram(voronoi_two_points(ps[1], ps[2], w, h), SortPoints(ps))
    ELSE VoronoiDiagram(voronoi_three_points(ps, w, h), convex_hull_simple(ps))
LeafDiagram(f, w, h) == LeafOf(f.points_sorted, w, h)

\* the call on top of rest returns diagram d: the caller stores it and goes
\* on (to the right child after the left one, to the merge after the right
\* one); the outermost call returns to the entry point
Return(rest, d) ==
    IF rest = <<>>
    THEN /\ stack' = <<>>
         /\ pc' = "done"
         /\ edges' = d.edges
    ELSE LET f == rest[Len(rest)]
             up == SubSeq(rest, 1, Len(rest) - 1)
         IN  /\ pc' = pc
             /\ edges' = edges
             /\ IF f.at = "left"
                THEN stack' = up \o <<[f EXCEPT !.at = "right", !.left_diagram = d],
                                       Frame(Children(f)[2], f.depth + 1)>>
                ELSE stack' = up \o <<[f EXCEPT !.at = "merge", !.right_diagram = d]>>

Top == stack[Len(stack)]
Rest == SubSeq(stack, 1, Len(stack) - 1)

\* compute_voronoi (lines 64-94)
\* the entry point that adds its edges to the edges of the call before it
ComputeSortedAccumulate(s) ==
    /\ sorted_pts' = s
    /\ IF Len(s) <= 1
       THEN pc' = "done" /\ edges' = edges /\ stack' = <<>>
       ELSE IF Len(s) = 2
       THEN /\ pc' = "done" /\ stack' = <<>>
            /\ edges' = edges \o voronoi_two_points(s[1], s[2], canvas_w, canvas_h)
       ELSE IF Len(s) = 3
       THEN /\ pc' = "done" /\ stack' = <<>>
            /\ edges' = edges \o voronoi_three_points(s, canvas_w, canvas_h)
       ELSE pc' = "build" /\ edges' = <<>> /\ stack' = <<Frame(s, 0)>>

\* lines 75-94 for the sorted unique points s
ComputeSorted(s) ==
    /\ sorted_pts' = s
    /\ IF Len(s) <= 1
       THEN pc' = "done" /\ edges' = <<>> /\ stack' = <<>>
       ELSE IF Len(s) = 2
       THEN /\ pc' = "done" /\ stack' = <<>>
            /\ edges' = voronoi_two_points(s[1], s[2], canvas_w, canvas_h)
       ELSE IF Len(s) = 3
       THEN /\ pc' = "done" /\ stack' = <<>>
            /\ edges' = voronoi_three_points(s, canvas_w, canvas_h)
       ELSE pc' = "build" /\ edges' = <<>> /\ stack' = <<Frame(s, 0)>>

ComputeVoronoi ==
    /\ pc = "idle"
    /\ recording' = FALSE
    /\ ComputeSorted(SortPoints(unique_points(points)))
    /\ UNCHANGED <<points, canvas_w, canvas_h, steps, levels, returned, call, result, canvas_points, canvas_edges, cached_steps, step_idx, sub_phase, status, saved, file_manager, reader_log>>

\* compute_voronoi_with_steps (lines 96-122)
\* lines 113-122 for the sorted unique points s
RecordSorted(s) ==
    /\ sorted_pts' = s
    /\ IF Len(s) = 0
       THEN pc' = "done" /\ stack' = <<>>
       ELSE pc' = "build" /\ stack' = <<Frame(s, 0)>>

ComputeVoronoiWithSteps ==
    /\ pc = "idle"
    /\ recording' = TRUE
    /\ RecordSorted(SortPoints(unique_points(points)))
    /\ steps' = <<>>
    /\ edges' = <<>>
    /\ UNCHANGED <<points, canvas_w, canvas_h, levels, returned, call, result, canvas_points, canvas_edges, cached_steps, step_idx, sub_phase, status, saved, file_manager, reader_log>>

\* _build_voronoi, lines 129-149: a base case returns its diagram
BuildLeaf ==
    /\ pc = "build"
    /\ Top.at = "call"
    /\ IsLeaf(Top)
    /\ Return(Rest, LeafDiagram(Top, canvas_w, canvas_h))
    /\ UNCHANGED <<points, canvas_w, canvas_h, recording, sorted_pts, steps, levels, returned, call, result, canvas_points, canvas_edges, cached_steps, step_idx, sub_phase, status, saved, file_manager, reader_log>>

\* _build_voronoi, lines 153-165: split at the middle index, call on the left part
BuildSplit ==
    /\ pc = "build"
    /\ Top.at = "call"
    /\ ~IsLeaf(Top)
    /\ stack' = Rest \o <<[Top EXCEPT !.at = "left"], Frame(Children(Top)[1], Top.depth + 1)>>
    /\ UNCHANGED <<points, canvas_w, canvas_h, pc, recording, sorted_pts, steps, edges, levels, returned, call, result, canvas_points, canvas_edges, cached_steps, step_idx, sub_phase, status, saved, file_manager, reader_log>>

\* the merge that puts its MergeStep in front of the sequence
\* the merge result m put in front of the sequence
MergedPrepend(m) ==
    /\ IF recording
       THEN steps' = <<m.step>> \o steps /\ levels' = <<Top.depth>> \o levels
       ELSE UNCHANGED <<steps, levels>>
    /\ Return(Rest, m.diagram)

\* the merge that starts a new sink for its step
MergedRestart(m) ==
    /\ IF recording
       THEN steps' = <<m.step>> /\ levels' = <<Top.depth>>
       ELSE UNCHANGED <<steps, levels>>
    /\ Return(Rest, m.diagram)

\* lines 238-253 and 180 for the merge result m: the step is appended
\* when recording, the diagram is returned
Merged(m) ==
    /\ IF recording
       THEN steps' = Append(steps, m.step) /\ levels' = Append(levels, Top.depth)
       ELSE UNCHANGED <<steps, levels>>
    /\ Return(Rest, m.diagram)

\* the merge that puts its MergeStep in front of the sequence
BuildMergePrepend ==
    /\ pc = "build"
    /\ Top.at = "merge"
    /\ MergedPrepend(MergeResult(Top.left_diagram, Top.right_diagram,
                                 LeftPoints(Top), RightPoints(Top), MedianX(Top),
                                 canvas_w, canvas_h))
    /\ UNCHANGED <<points, canvas_w, canvas_h, recording, sorted_pts, returned, call, result, canvas_points, canvas_edges, cached_steps, step_idx, sub_phase, status, saved, file_manager, reader_log>>

\* _build_voronoi, lines 169-180 with _merge_diagrams: merge the children,
\* append the MergeStep when recording, return the merged diagram
BuildMerge ==
    /\ pc = "build"
    /\ Top.at = "merge"
    /\ Merged(MergeResult(Top.left_diagram, Top.right_diagram,
                          LeftPoints(Top), RightPoints(Top), MedianX(Top),
                          canvas_w, canvas_h))
    /\ UNCHANGED <<points, canvas_w, canvas_h, recording, sorted_pts, returned, call, result, canvas_points, canvas_edges, cached_steps, step_idx, sub_phase, status, saved, file_manager, reader_log>>

Next ==
    \/ ComputeVoronoi
    \/ ComputeVoronoiWithSteps
    \/ BuildLeaf
    \/ BuildSplit
    \/ BuildMerge

Spec == Init /\ [][Next]_vars

(***************************************************************************)
(* A caller that calls an entry point again with the same arguments        *)
(* (ui_window._on_run_click pressed again on an unchanged canvas).  What   *)
(* the finished call returned is kept in "returned"; edges, steps and      *)
(* sorted_pts keep the values of the finished call until the next call     *)
(* writes them.                                                            *)
(***************************************************************************)
MaxCalls == 2

CallAgain ==
    /\ pc = "done"
    /\ Len(returned) < MaxCalls - 1
    /\ returned' = Append(returned, [recording |-> recording, edges |-> edges,
                                     steps |-> steps])
    /\ pc' = "idle"
    /\ levels' = <<>>
    /\ UNCHANGED <<points, canvas_w, canvas_h, recording, sorted_pts, stack, steps, edges, call, result, canvas_points, canvas_edges, cached_steps, step_idx, sub_phase, status, saved, file_manager, reader_log>>

NextAgain ==
    \/ Next
    \/ CallAgain

SpecAgain == Init /\ [][NextAgain]_vars

(***************************************************************************)
(* The helper functions called on their own: _trim_edges_by_hp on one      *)
(* edge, _filter_segment_by_closest_pair on one segment and                *)
(* _intersect_line_with_rect on one line, for segments, sites and lines    *)
(* that need not come from a diagram.  "result" holds what the   *)
(* call made of its samples (keep_flags, mask), the segments found before  *)
(* the length filter where the code has such a list (segs), and what it    *)
(* returned (out).                                                         *)
(***************************************************************************)
\* the sites the calls choose their left and right sites from
FnSites == <<IPoint(1, 1), IPoint(2, 1), IPoint(3, 1), IPoint(2, 3)>>
MaxFnSites == 3
\* disjoint non-empty left and right site lists of at most MaxFnSites sites
FnSides ==
    {[l |-> Pick(FnSites, L), r |-> Pick(FnSites, R)] :
        <<L, R>> \in {pr \in (SUBSET (1..Len(FnSites))) \X (SUBSET (1..Len(FnSites))) :
                         /\ pr[1] # {} /\ pr[2] # {} /\ pr[1] \cap pr[2] = {}
                         /\ Cardinality(pr[1]) + Cardinality(pr[2]) <= MaxFnSites}}
\* the segment of length 1/k from (1, 2) to the right: 2e-5, 5e-6 and 8e-7
\* are above, between and below the two minimum lengths
ShortSegment(k) == Edge(IPoint(1, 2), Point(Rat(k + 1, k), I2R(2)))
\* the segments of the calls, in the SmallW x SmallH rectangle
FnSegments ==
    {Edge(IPoint(0, 2), IPoint(4, 2)), Edge(IPoint(4, 2), IPoint(0, 2)),
     Edge(IPoint(0, 0), IPoint(4, 4)), Edge(IPoint(2, 0), IPoint(2, 4)),
     Edge(IPoint(0, 1), IPoint(4, 3)), Edge(IPoint(1, 2), IPoint(3, 2)),
     ShortSegment(50000), ShortSegment(200000), ShortSegment(1250000)}

TrimCalls ==
    {[fn |-> "trim", e |-> e, left_sites |-> c.l, right_sites |-> c.r, keep_left |-> k] :
        e \in FnSegments, c \in FnSides, k \in BOOLEAN}
\* the classifier is called for the pair (left_sites[1], right_sites[1])
\* among all the sites
FilterCalls ==
    {[fn |-> "filter", e |-> e, left_sites |-> c.l, right_sites |-> c.r, keep_left |-> TRUE] :
        e \in FnSegments, c \in FnSides}

\* the lines given to the intersector: a point and a direction with a
\* non-zero component, in the SmallW x SmallH rectangle
FnMids == {IPoint(2, 2), IPoint(0, 0), IPoint(4, 0), IPoint(-1, 2), IPoint(5, 5), IPoint(2, 4), IPoint(1, 0)}
FnDirs == {IPoint(1, 0), IPoint(0, 1), IPoint(1, 1), IPoint(1, -1), IPoint(-1, 2), IPoint(2, 1), IPoint(-3, -1)}
\* a steep line that crosses y = 0 less than EPS to the left of the corner
\* (0, 0) of the unit square
NearCornerCall ==
    [fn |-> "intersect", mid |-> Point(Rat(-1, 1500000000), Zero),
     dirv |-> IPoint(1, 1000), w |-> 1, h |-> 1]
IntersectCalls ==
    {[fn |-> "intersect", mid |-> m, dirv |-> d, w |-> SmallW, h |-> SmallH] :
        m \in FnMids, d \in FnDirs}
    \cup {NearCornerCall}

InitFn ==
    /\ canvas_w = SmallW
    /\ canvas_h = SmallH
    /\ points = <<>>
    /\ pc = "fn"
    /\ recording = FALSE
    /\ sorted_pts = <<>>
    /\ stack = <<>>
    /\ steps = <<>>
    /\ edges = <<>>
    /\ levels = <<>>
    /\ returned = <<>>
    /\ call \in TrimCalls \cup FilterCalls \cup IntersectCalls
    /\ result = NoResult
    /\ canvas_points = <<>>
    /\ canvas_edges = <<>>
    /\ cached_steps = NoSteps
    /\ step_idx = 0
    /\ sub_phase = 0
    /\ status = Message("Ready")
    /\ saved = <<>>
    /\ file_manager = NoManager
    /\ reader_log = <<>>

engine_vars ==
    <<points, canvas_w, canvas_h, pc, recording, sorted_pts, stack, steps, edges, levels,
      returned>>

\* _trim_edges_by_hp([e], left_sites, right_sites, keep_left), lines 710-820
TrimResult(c, samples) ==
    [fn |-> "trim",
     keep_flags |-> KeepFlags(c.e, c.left_sites, c.right_sites, c.keep_left, samples),
     out |-> trim_edges_by_hp(<<c.e>>, c.left_sites, c.right_sites, c.keep_left)]
CallTrim ==
    /\ call.fn = "trim"
    /\ result = NoResult
    /\ result' = TrimResult(call, SampleCount(call.e.start, call.e.end, TrimLenPerSample))
    /\ UNCHANGED <<engine_vars, call, canvas_points, canvas_edges, cached_steps, step_idx, sub_phase, status, saved, file_manager, reader_log>>

\* _filter_segment_by_closest_pair(A, B, site_a, site_b, all_sites), lines 549-677
FilterResult(A, B, site_a, site_b, all_sites, samples) ==
    [fn |-> "filter",
     mask |-> ValidMask(A, B, site_a, site_b, all_sites, samples),
     segs |-> FilterScan(A, B, site_a, site_b, all_sites, samples),
     out |-> filter_segment_by_closest_pair(A, B, site_a, site_b, all_sites)]
CallFilter ==
    /\ call.fn = "filter"
    /\ result = NoResult
    /\ result' = FilterResult(call.e.start, call.e.end, call.left_sites[1],
                              call.right_sites[1], call.left_sites \o call.right_sites,
                              SampleCount(call.e.start, call.e.end, FilterLenPerSample))
    /\ UNCHANGED <<engine_vars, call, canvas_points, canvas_edges, cached_steps, step_idx, sub_phase, status, saved, file_manager, reader_log>>

\* _intersect_line_with_rect(mid, dirv, w, h), lines 433-482
CallIntersect ==
    /\ call.fn = "intersect"
    /\ result = NoResult
    /\ result' = [fn |-> "intersect",
                  out |-> intersect_line_with_rect(call.mid, call.dirv, call.w, call.h)]
    /\ UNCHANGED <<engine_vars, call, canvas_points, canvas_edges, cached_steps, step_idx, sub_phase, status, saved, file_manager, reader_log>>

NextFn ==
    \/ CallTrim
    \/ CallFilter
    \/ CallIntersect

SpecFn == InitFn /\ [][NextFn]_vars

(***************************************************************************)
(* The entry points as functions: what one call returns.                   *)
(***************************************************************************)
\* _build_voronoi lines 169-180: the merged diagram; the steps of the left
\* call, of the right call, then the MergeStep of this merge
BuildJoined(l, r, m, rec) ==
    [diagram |-> m.diagram,
     steps |-> IF rec THEN l.steps \o r.steps \o <<m.step>> ELSE <<>>]

BuildJoin(l, r, left_points, right_points, median_x, w, h, rec) ==
    BuildJoined(l, r, MergeResult(l.diagram, r.diagram, left_points, right_points, median_x, w, h), rec)

\* _build_voronoi (lines 125-182) for the sorted sites ps; rec is "steps is
\* not None"
RECURSIVE build_voronoi(_, _, _, _)
build_voronoi(ps, w, h, rec) ==
    IF Len(ps) = 1 \/ (~rec /\ Len(ps) \in {2, 3})
    THEN [diagram |-> LeafOf(ps, w, h), steps |-> <<>>]
    ELSE LET mid == Len(ps) \div 2
             left_points == SubSeq(ps, 1, mid)
             right_points == SubSeq(ps, mid + 1, Len(ps))
         IN  BuildJoin(build_voronoi(left_points, w, h, rec),
                       build_voronoi(right_points, w, h, rec),
                       left_points, right_points,
                       RHalf(RAdd(left_points[mid].x, right_points[1].x)), w, h, rec)

\* compute_voronoi lines 75-94 for the sorted unique points s
ComputeOfSorted(s, w, h) ==
    IF Len(s) <= 1 THEN <<>>
    ELSE IF Len(s) = 2 THEN voronoi_two_points(s[1], s[2], w, h)
    ELSE IF Len(s) = 3 THEN voronoi_three_points(s, w, h)
    ELSE build_voronoi(s, w, h, FALSE).diagram.edges

compute_voronoi(pts, w, h) == ComputeOfSorted(SortPoints(unique_points(pts)), w, h)

\* compute_voronoi_with_steps lines 113-122 for the sorted unique points s
StepsOfBuilt(b) == [edges |-> b.diagram.edges, steps |-> b.steps]
StepsOfSorted(s, w, h) ==
    IF Len(s) = 0 THEN [edges |-> <<>>, steps |-> <<>>]
    ELSE StepsOfBuilt(build_voronoi(s, w, h, TRUE))

compute_voronoi_with_steps(pts, w, h) == StepsOfSorted(SortPoints(unique_points(pts)), w, h)

(***************************************************************************)
(* The window (ui_window.py) and its canvas (myCanvas.py).                 *)
(* A text file is a sequence of lines, a line the sequence of its          *)
(* whitespace-separated tokens (what strip() and split() leave): an        *)
(* integer literal, a decimal literal or a word.                           *)
(***************************************************************************)
IntTok(n) == [kind |-> "int", val |-> I2R(n), text |-> ""]
DecTok(r) == [kind |-> "dec", val |-> r, text |-> ""]
WordTok(s) == [kind |-> "word", val |-> Zero, text |-> s]

\* int(x) of a float: truncation toward zero
int_trunc(a) == IF a[1] >= 0 THEN a[1] \div a[2] ELSE -((-a[1]) \div a[2])

\* a line that is empty or starts with '#' (lines 47-49)
IsSkipped(line) == line = <<>> \/ (line[1].kind = "word" /\ line[1].text = "#")

\* open() (lines 32-34)
fm_open(fm) == [fm EXCEPT !.fp = OpenedFp, !.eof = FALSE]

\* the close() that does not mark the end
fm_close_keep_eof(fm) == [fm EXCEPT !.fp = NoFp]

\* close() (lines 36-40)
fm_close(fm) == [fm EXCEPT !.fp = NoFp, !.eof = TRUE]

\* _read_next_noncomment_line (lines 42-51): the line found, or none, and the
\* index after it
RECURSIVE ReadFrom(_, _)
ReadFrom(lines, at) ==
    IF at > Len(lines) THEN [none |-> TRUE, line |-> <<>>, at |-> at]
    ELSE IF IsSkipped(lines[at]) THEN ReadFrom(lines, at + 1)
    ELSE [none |-> FALSE, line |-> lines[at], at |-> at + 1]
read_next_noncomment_line(fm) ==
    IF ~fm.fp.open THEN [none |-> TRUE, line |-> <<>>, at |-> fm.fp.at]
    ELSE ReadFrom(fm.path, fm.fp.at)

\* what next_batch returns, with the manager it leaves
ReturnNone(fm) == [none |-> TRUE, pts |-> <<>>, fm |-> fm]
ReturnList(pts, fm) == [none |-> FALSE, pts |-> pts, fm |-> fm]
At(fm, at) == [fm EXCEPT !.fp.at = at]

\* lines 82-94: up to n coordinate lines; a line of fewer than two tokens
\* is passed over, the end of the file ends the batch early
RECURSIVE ReadPoints(_, _, _)
ReadPointsLine(fm, n, pts, r) ==
    IF r.none THEN ReturnList(pts, At(fm, r.at))
    ELSE ReadPoints(At(fm, r.at), n - 1,
                    IF Len(r.line) >= 2
                    THEN Append(pts, Point(r.line[1].val, r.line[2].val))
                    ELSE pts)
ReadPoints(fm, n, pts) ==
    IF n <= 0 THEN ReturnList(pts, fm)
    ELSE ReadPointsLine(fm, n, pts, read_next_noncomment_line(fm))

\* lines 67-80: the count line
NextBatchCount(fm, r) ==
    IF r.none THEN ReturnNone(fm_close(At(fm, r.at)))
    ELSE IF r.line[1].kind # "int" THEN ReturnNone(fm_close(At(fm, r.at)))
    ELSE IF r.line[1].val = Zero THEN ReturnList(<<>>, At(fm, r.at))
    ELSE ReadPoints(At(fm, r.at), int_trunc(r.line[1].val), <<>>)
NextBatchOpened(fm) == NextBatchCount(fm, read_next_noncomment_line(fm))

\* next_batch (lines 53-94)
next_batch(fm) ==
    IF fm.eof THEN ReturnNone(fm)
    ELSE NextBatchOpened(IF ~fm.fp.open THEN fm_open(fm) ELSE fm)

\* MyCanvas._clip_segment_to_rect (lines 123-162), Liang-Barsky: one of the
\* four (p, q) pairs applied to [ok, u1, u2]
ClipFail(st) == [st EXCEPT !.ok = FALSE]
ClipAt(st, p, t) ==
    IF RLt(p, Zero)
    THEN IF RLt(st.u2, t) THEN ClipFail(st)
         ELSE IF RLt(st.u1, t) THEN [st EXCEPT !.u1 = t] ELSE st
    ELSE IF RLt(t, st.u1) THEN ClipFail(st)
         ELSE IF RLt(t, st.u2) THEN [st EXCEPT !.u2 = t] ELSE st
ClipStep(st, p, q) ==
    IF ~st.ok THEN st
    ELSE IF p = Zero THEN (IF RLt(q, Zero) THEN ClipFail(st) ELSE st)
    ELSE ClipAt(st, p, RDiv(q, p))
ClipAll(x0, y0, dx, dy, w, h) ==
    ClipStep(ClipStep(ClipStep(ClipStep([ok |-> TRUE, u1 |-> Zero, u2 |-> One],
                                        RNeg(dx), x0),
                               dx, RSub(I2R(w), x0)),
                      RNeg(dy), y0),
             dy, RSub(I2R(h), y0))
clip_segment_to_rect(e, w, h) ==
    ClipAll(e.start.x, e.start.y, RSub(e.end.x, e.start.x), RSub(e.end.y, e.start.y), w, h)

\* MyCanvas.add_edge (lines 63-81) for each edge of es in turn: an edge with
\* no part in the rectangle is not kept
RECURSIVE add_edges(_, _, _, _)
add_edges(kept, es, w, h) ==
    IF es = <<>> THEN kept
    ELSE add_edges(IF clip_segment_to_rect(Head(es), w, h).ok
                   THEN Append(kept, Head(es)) ELSE kept,
                   Tail(es), w, h)

\* _open_output_file lines 294-313: "P x y" and "E x1 y1 x2 y2" lines, the
\* numbers read with float(); other lines are passed over
IsTagged(line, tag) == ~IsSkipped(line) /\ line[1].kind = "word" /\ line[1].text = tag
RECURSIVE PointsOfFile(_)
PointsOfFile(lines) ==
    IF lines = <<>> THEN <<>>
    ELSE (IF IsTagged(Head(lines), "P")
          THEN <<Point(Head(lines)[2].val, Head(lines)[3].val)>> ELSE <<>>)
         \o PointsOfFile(Tail(lines))
RECURSIVE EdgesOfFile(_)
EdgesOfFile(lines) ==
    IF lines = <<>> THEN <<>>
    ELSE (IF IsTagged(Head(lines), "E")
          THEN <<Edge(Point(Head(lines)[2].val, Head(lines)[3].val),
                      Point(Head(lines)[4].val, Head(lines)[5].val))>>
          ELSE <<>>)
         \o EdgesOfFile(Tail(lines))

\* _save_output_file lines 342-349: the endpoint that comes first in (x, y)
\* is written first
OrientEdge(e) == IF PointLt(e.end, e.start) THEN Edge(e.end, e.start) ELSE e
RECURSIVE OrientAll(_)
OrientAll(es) == IF es = <<>> THEN <<>> ELSE <<OrientEdge(Head(es))>> \o OrientAll(Tail(es))

\* line 351: the sort key (x1, y1, x2, y2); the sort is stable
EdgeLt(d, e) == IF d.start # e.start THEN PointLt(d.start, e.start) ELSE PointLt(d.end, e.end)
RECURSIVE InsertEdge(_, _)
InsertEdge(s, e) ==
    IF s = <<>> THEN <<e>>
    ELSE IF EdgeLt(e, Head(s)) THEN <<e>> \o s
    ELSE <<Head(s)>> \o InsertEdge(Tail(s), e)
RECURSIVE SortEdges(_)
SortEdges(s) ==
    IF s = <<>> THEN <<>>
    ELSE InsertEdge(SortEdges(SubSeq(s, 1, Len(s) - 1)), s[Len(s)])

\* lines 354-359: the lines written, every coordinate through int()
PLine(p) == <<WordTok("P"), IntTok(int_trunc(p.x)), IntTok(int_trunc(p.y))>>
ELine(e) ==
    <<WordTok("E"), IntTok(int_trunc(e.start.x)), IntTok(int_trunc(e.start.y)),
      IntTok(int_trunc(e.end.x)), IntTok(int_trunc(e.end.y))>>
LinesOf(ps, es) == [i \in 1..Len(ps) |-> PLine(ps[i])] \o [i \in 1..Len(es) |-> ELine(es[i])]
SavedLines(ps, es) == LinesOf(SortPoints(ps), SortEdges(OrientAll(es)))

(***************************************************************************)
(* The window's handlers.  The engine is idle while the window runs: a     *)
(* handler calls an entry point as a function.  _pre_step_points and       *)
(* _pre_step_edges are written by the handlers and read by none.           *)
(***************************************************************************)
\* the canvas positions clicked, at most MaxCanvasPoints points by clicks
ClickSites == {IPoint(0, 3), IPoint(3, 1)}
MaxCanvasPoints == 3

NumLine(a, b) == <<IntTok(a), IntTok(b)>>
CountLine(n) == <<IntTok(n)>>
CommentLine == <<WordTok("#"), WordTok("batch")>>

\* test-data files: batches and a final 0; a batch that runs to the end of
\* the file; a malformed count; non-integer coordinates; an empty file;
\* a coordinate line of one token; a negative count
TwoBatches == <<CommentLine, CountLine(2), NumLine(0, 0), NumLine(0, 3), <<>>, CountLine(1), NumLine(3, 1), CountLine(0), CountLine(1), NumLine(0, 3)>>
CutShort == <<CountLine(3), NumLine(0, 0), CommentLine, NumLine(3, 1)>>
BadCount == <<CountLine(1), NumLine(3, 1), <<WordTok("x")>>, CountLine(1), NumLine(0, 0)>>
Decimals == <<CountLine(3), <<DecTok(Rat(6, 5)), IntTok(9)>>, <<DecTok(Rat(17, 10)), IntTok(5)>>, <<DecTok(Rat(6, 5)), IntTok(9)>>>>
DecimalCount == <<<<DecTok(Rat(5, 2))>>, NumLine(0, 0)>>
ShortLine == <<CountLine(2), <<IntTok(7)>>, NumLine(0, 3), CountLine(1), NumLine(3, 1)>>
NegativeCount == <<CountLine(-1), CountLine(1), NumLine(0, 0)>>
InputFiles == {TwoBatches, CutShort, BadCount, Decimals, DecimalCount, ShortLine, NegativeCount, <<>>}
OneBatch == <<CountLine(1), NumLine(0, 0), CountLine(0)>>
UiInputFiles == {OneBatch}

\* the output file opened: a point, an edge with non-integer endpoints, an
\* edge outside the canvas and a line that is neither P nor E
TagLine(tag, nums) == <<WordTok(tag)>> \o nums
Slanted == <<TagLine("P", NumLine(0, 0)), CommentLine, TagLine("E", <<DecTok(Rat(6, 5)), IntTok(9), DecTok(Rat(17, 10)), IntTok(5)>>), TagLine("E", NumLine(700, 700) \o NumLine(800, 900)), TagLine("V", NumLine(1, 1))>>
OutputFiles == {Slanted}

\* the window after AppWindow.__init__ (lines 99-186)
UiStart ==
    /\ canvas_points = <<>>
    /\ canvas_edges = <<>>
    /\ cached_steps = NoSteps
    /\ step_idx = 0
    /\ sub_phase = 0
    /\ status = Message("Ready")
    /\ saved = <<>>
    /\ file_manager = NoManager
    /\ reader_log = <<>>

ui_vars ==
    <<canvas_points, canvas_edges, cached_steps, step_idx, sub_phase, status, saved,
      file_manager, reader_log>>

InitUi ==
    /\ canvas_w = CanvasSize
    /\ canvas_h = CanvasSize
    /\ points = <<>>
    /\ pc = "idle"
    /\ recording = FALSE
    /\ sorted_pts = <<>>
    /\ stack = <<>>
    /\ steps = <<>>
    /\ edges = <<>>
    /\ levels = <<>>
    /\ returned = <<>>
    /\ call = NoCall
    /\ result = NoResult
    /\ UiStart

\* _on_canvas_click (lines 655-657)
OnCanvasClick(p) ==
    /\ Len(canvas_points) < MaxCanvasPoints
    /\ canvas_points' = Append(canvas_points, p)
    /\ UNCHANGED <<engine_vars, call, result, canvas_edges, cached_steps, step_idx, sub_phase, status, saved, file_manager, reader_log>>

\* _clear_canvas (lines 659-664)
ClearCanvas ==
    /\ canvas_points' = <<>>
    /\ canvas_edges' = <<>>
    /\ cached_steps' = NoSteps
    /\ step_idx' = 0
    /\ UNCHANGED <<engine_vars, call, result, sub_phase, status, saved, file_manager, reader_log>>

\* _open_input_file (lines 220-241) for the file chosen in the dialog
OpenInputFile(path) ==
    /\ file_manager' = fm_open(FileInputManager(path))
    /\ status' = Message("File Opened")
    /\ UNCHANGED <<engine_vars, call, result, canvas_points, canvas_edges, cached_steps, step_idx, sub_phase, saved, reader_log>>

\* _load_next_batch lines 253-275 for what next_batch returned
LoadBatch(r) ==
    IF r.none
    THEN /\ file_manager' = r.fm
         /\ status' = Message("End")
         /\ UNCHANGED <<canvas_points, canvas_edges>>
    ELSE IF r.pts = <<>>
    THEN /\ file_manager' = NoManager
         /\ status' = Message("Stopped")
         /\ UNCHANGED <<canvas_points, canvas_edges>>
    ELSE /\ file_manager' = r.fm
         /\ canvas_points' = r.pts
         /\ canvas_edges' = <<>>
         /\ status' = Message("Loaded batch")

\* _load_next_batch (lines 243-275)
LoadNextBatch ==
    /\ cached_steps' = NoSteps
    /\ step_idx' = 0
    /\ sub_phase' = 0
    /\ IF ~file_manager.exists
       THEN /\ status' = Message("No File")
            /\ UNCHANGED <<canvas_points, canvas_edges, file_manager>>
       ELSE LoadBatch(next_batch(file_manager))
    /\ UNCHANGED <<engine_vars, call, result, saved, reader_log>>

\* _open_output_file (lines 277-318) for the file chosen in the dialog
OpenOutputFile(lines) ==
    /\ canvas_points' = PointsOfFile(lines)
    /\ canvas_edges' = add_edges(<<>>, EdgesOfFile(lines), canvas_w, canvas_h)
    /\ status' = Message("Loaded output file")
    /\ UNCHANGED <<engine_vars, call, result, cached_steps, step_idx, sub_phase, saved, file_manager, reader_log>>

\* _save_output_file (lines 320-361)
SaveOutputFile ==
    /\ saved' = SavedLines(canvas_points, canvas_edges)
    /\ status' = Message("Saved")
    /\ UNCHANGED <<engine_vars, call, result, canvas_points, canvas_edges, cached_steps, step_idx, sub_phase, file_manager, reader_log>>

\* _on_run_click (lines 363-412)
OnRunClick ==
    /\ cached_steps' = NoSteps
    /\ step_idx' = 0
    /\ sub_phase' = 0
    /\ IF canvas_points = <<>>
       THEN /\ status' = Message("Run Voronoi: no points")
            /\ UNCHANGED canvas_edges
       ELSE /\ canvas_edges' = add_edges(<<>>, compute_voronoi(canvas_points, canvas_w, canvas_h), canvas_w, canvas_h)
            /\ status' = Message("Ran Voronoi")
    /\ UNCHANGED <<engine_vars, call, result, canvas_points, saved, file_manager, reader_log>>

\* lines 481-506 and 574-599: the old lines go, the points stay, the edges
\* of the step are added
DrawStep(step) ==
    canvas_edges' = add_edges(<<>>, step.left_edges \o step.right_edges \o step.hyperplane_edges, canvas_w, canvas_h)

\* _on_step_click lines 472-541 at step index idx and sub-phase sub
ShowStep(list, idx, sub) ==
    IF idx >= Len(list)
    THEN /\ step_idx' = idx
         /\ sub_phase' = sub
         /\ status' = Message("Step: all merge steps done")
         /\ UNCHANGED canvas_edges
    ELSE /\ step_idx' = idx
         /\ DrawStep(list[idx + 1])
         /\ IF sub = 0
            THEN /\ sub_phase' = 1
                 /\ status' = Status("Merge step", idx + 1, Len(list), "left and right hulls")
            ELSE IF sub = 1
            THEN /\ sub_phase' = 2
                 /\ status' = Status("Merge step", idx + 1, Len(list), "merged hull")
            ELSE /\ sub_phase' = 0
                 /\ status' = Status("Merge step", idx + 1, Len(list), "reset")

\* the click that never moves on to the next step
AdvanceStay(list, idx, sub) == ShowStep(list, idx, sub)

\* lines 472-474: after phase 2 the next step comes
Advance(list, idx, sub) == IF sub = 2 THEN ShowStep(list, idx + 1, 0) ELSE ShowStep(list, idx, sub)

\* lines 455-469: the first click computes the steps
StepFresh(list) ==
    /\ cached_steps' = Cached(list)
    /\ IF list = <<>>
       THEN /\ step_idx' = 0
            /\ sub_phase' = 0
            /\ status' = Message("Step: too few points")
            /\ UNCHANGED canvas_edges
       ELSE Advance(list, 0, 0)

\* _on_step_click (lines 435-541)
OnStepClick ==
    /\ IF canvas_points = <<>>
       THEN /\ status' = Message("Step: no points")
            /\ UNCHANGED <<canvas_edges, cached_steps, step_idx, sub_phase>>
       ELSE IF ~cached_steps.cached
       THEN StepFresh(compute_voronoi_with_steps(canvas_points, canvas_w, canvas_h).steps)
       ELSE /\ UNCHANGED cached_steps
            /\ Advance(cached_steps.list, step_idx, sub_phase)
    /\ UNCHANGED <<engine_vars, call, result, canvas_points, saved, file_manager, reader_log>>

\* _on_step_to_end_click lines 571-616: the last step with its merged hull
ShowLast(list) ==
    /\ cached_steps' = Cached(list)
    /\ step_idx' = Len(list) - 1
    /\ sub_phase' = 1
    /\ DrawStep(list[Len(list)])
    /\ status' = Status("Step to End", Len(list), Len(list), "merged hull")

\* lines 559-566: the steps computed by this click are kept only if there
\* are any
EndFresh(list) ==
    IF list = <<>>
    THEN /\ status' = Message("Step to End: too few points")
         /\ UNCHANGED <<canvas_edges, cached_steps, step_idx, sub_phase>>
    ELSE ShowLast(list)

\* _on_step_to_end_click (lines 543-616)
OnStepToEndClick ==
    /\ IF canvas_points = <<>>
       THEN /\ status' = Message("Step to End: no points")
            /\ UNCHANGED <<canvas_edges, cached_steps, step_idx, sub_phase>>
       ELSE IF ~cached_steps.cached
       THEN EndFresh(compute_voronoi_with_steps(canvas_points, canvas_w, canvas_h).steps)
       ELSE IF cached_steps.list = <<>>
       THEN /\ status' = Message("Step to End: no merge steps")
            /\ UNCHANGED <<canvas_edges, cached_steps, step_idx, sub_phase>>
       ELSE ShowLast(cached_steps.list)
    /\ UNCHANGED <<engine_vars, call, result, canvas_points, saved, file_manager, reader_log>>

\* _on_step_reset_click (lines 619-644)
OnStepResetClick ==
    /\ canvas_edges' = <<>>
    /\ cached_steps' = NoSteps
    /\ step_idx' = 0
    /\ sub_phase' = 0
    /\ status' = Message("Step reset")
    /\ UNCHANGED <<engine_vars, call, result, canvas_points, saved, file_manager, reader_log>>

NextUi ==
    \/ \E p \in ClickSites : OnCanvasClick(p)
    \/ ClearCanvas
    \/ \E path \in UiInputFiles : OpenInputFile(path)
    \/ LoadNextBatch
    \/ \E lines \in OutputFiles : OpenOutputFile(lines)
    \/ OnRunClick
    \/ OnStepClick
    \/ OnStepToEndClick
    \/ OnStepResetClick

SpecUi == InitUi /\ [][NextUi]_vars

\* a session that ends with its first save: Save writes the file and the
\* message and nothing else
NextSave ==
    /\ saved = <<>>
    /\ \/ NextUi
       \/ SaveOutputFile

SpecSave == InitUi /\ [][NextSave]_vars

(***************************************************************************)
(* The reader alone: open(), close() and next_batch() called in any order  *)
(* on one FileInputManager; reader_log lists the calls made since          *)
(* construction, oldest first, next_batch with what it returned.           *)
(***************************************************************************)
MaxReaderCalls == 4

Logged(name, none, pts) == [name |-> name, none |-> none, pts |-> pts]

InitReader ==
    /\ canvas_w = CanvasSize
    /\ canvas_h = CanvasSize
    /\ points = <<>>
    /\ pc = "idle"
    /\ recording = FALSE
    /\ sorted_pts = <<>>
    /\ stack = <<>>
    /\ steps = <<>>
    /\ edges = <<>>
    /\ levels = <<>>
    /\ returned = <<>>
    /\ call = NoCall
    /\ result = NoResult
    /\ canvas_points = <<>>
    /\ canvas_edges = <<>>
    /\ cached_steps = NoSteps
    /\ step_idx = 0
    /\ sub_phase = 0
    /\ status = Message("Ready")
    /\ saved = <<>>
    /\ file_manager \in {FileInputManager(path) : path \in InputFiles}
    /\ reader_log = <<>>

window_vars == <<canvas_points, canvas_edges, cached_steps, step_idx, sub_phase, status, saved>>

\* open() (lines 32-34)
ReaderOpen ==
    /\ Len(reader_log) < MaxReaderCalls
    /\ file_manager' = fm_open(file_manager)
    /\ reader_log' = Append(reader_log, Logged("open", FALSE, <<>>))
    /\ UNCHANGED <<engine_vars, call, result, window_vars>>

\* close() (lines 36-40)
ReaderClose ==
    /\ Len(reader_log) < MaxReaderCalls
    /\ file_manager' = fm_close(file_manager)
    /\ reader_log' = Append(reader_log, Logged("close", FALSE, <<>>))
    /\ UNCHANGED <<engine_vars, call, result, window_vars>>

\* next_batch() (lines 53-94)
ReaderReturned(r) ==
    /\ file_manager' = r.fm
    /\ reader_log' = Append(reader_log, Logged("next_batch", r.none, r.pts))
ReaderNextBatch ==
    /\ Len(reader_log) < MaxReaderCalls
    /\ ReaderReturned(next_batch(file_manager))
    /\ UNCHANGED <<engine_vars, call, result, window_vars>>

NextReader ==
    \/ ReaderOpen
    \/ ReaderClose
    \/ ReaderNextBatch

SpecReader == InitReader /\ [][NextReader]_vars

(***************************************************************************)
(* The two entry points called one after the other on the same points,     *)
(* among them two sites whose bisector cuts a corner of the rectangle in a *)
(* chord shorter than the shortest segment the classifier keeps.           *)
(***************************************************************************)
MaxModeSites == 4

InitModes ==
    /\ canvas_w = SmallW
    /\ canvas_h = SmallH
    /\ points \in InputsOver(Universe, MaxModeSites) \cup TinyCornerInputs
    /\ pc = "idle"
    /\ recording = FALSE
    /\ sorted_pts = <<>>
    /\ stack = <<>>
    /\ steps = <<>>
    /\ edges = <<>>
    /\ levels = <<>>
    /\ returned = <<>>
    /\ call = NoCall
    /\ result = NoResult
    /\ UiStart

SpecModes == InitModes /\ [][NextAgain]_vars

(***************************************************************************)
(* Properties                                                              *)
(***************************************************************************)
Done == pc = "done"

\* the edges the engine has produced so far: the returned edges, the edges
\* recorded in the steps, and the edges of the diagrams held by active calls
StepEdges(st) == st.left_edges \o st.right_edges \o st.hyperplane_edges
AllEdgeLists ==
    {edges}
    \cup {StepEdges(steps[i]) : i \in 1..Len(steps)}
    \cup {stack[i].left_diagram.edges : i \in 1..Len(stack)}
    \cup {stack[i].right_diagram.edges : i \in 1..Len(stack)}
EndPoints(es) == {es[i].start : i \in 1..Len(es)} \cup {es[i].end : i \in 1..Len(es)}

InRect(p) ==
    /\ GeNegInv(p.x, EpsInv) /\ LeInv(RSub(p.x, I2R(canvas_w)), EpsInv)
    /\ GeNegInv(p.y, EpsInv) /\ LeInv(RSub(p.y, I2R(canvas_h)), EpsInv)
StrictlyInRect(p) ==
    /\ RLt(Zero, p.x) /\ RLt(p.x, I2R(canvas_w))
    /\ RLt(Zero, p.y) /\ RLt(p.y, I2R(canvas_h))
OnBoundary(p) ==
    /\ InRect(p)
    /\ \/ p.x = Zero \/ p.x = I2R(canvas_w) \/ p.y = Zero \/ p.y = I2R(canvas_h)

\* C1: every endpoint of every edge returned by compute and computeWithSteps,
\* and of every left, right and dividing-chain edge recorded in a MergeStep,
\* lies within [0,w] x [0,h] (up to EPS), wherever the sites lie.
C1_EdgesInRect == \A es \in AllEdgeLists : \A p \in EndPoints(es) : InRect(p)

\* C1 witness: a recorded run over sites of which one lies outside the
\* rectangle has finished with edges and steps.
C1_Witness ==
    /\ Done /\ recording /\ edges # <<>> /\ Len(steps) >= 2
    /\ \E i \in 1..Len(sorted_pts) : ~InRect(sorted_pts[i])
    /\ \E i \in 1..Len(steps) : steps[i].left_edges # <<>>

\* C2: if the input has no site, or all its sites have the same rounded
\* key, compute returns no edge and computeWithSteps returns no edge and no
\* step.
AllSameKey == \A i, j \in 1..Len(points) : PointKey(points[i]) = PointKey(points[j])
C2_TrivialInputs == (Done /\ AllSameKey) => (edges = <<>> /\ steps = <<>>)

\* C2 witness: a recorded run on two different points with one key is done.
C2_Witness ==
    /\ Done /\ recording /\ AllSameKey
    /\ Len(points) >= 2 /\ points[1] # points[2]

\* the bisector of a and b meets the rectangle in more than one point: its
\* sides are not all strictly on one side of it, and it does not merely
\* touch one corner
Corners == <<IPoint(0, 0), IPoint(canvas_w, 0), IPoint(0, canvas_h), IPoint(canvas_w, canvas_h)>>
BisectorSide(p, a, b) == RSign(RSub(RelDist(p.x, p.y, a), RelDist(p.x, p.y, b)))
BisectorCrosses(a, b) ==
    LET sg == [k \in 1..4 |-> BisectorSide(Corners[k], a, b)]
        pos == Cardinality({k \in 1..4 : sg[k] > 0})
        neg == Cardinality({k \in 1..4 : sg[k] < 0})
    IN  (pos >= 1 /\ neg >= 1) \/ (4 - pos - neg >= 2)

Equidistant(p, a, b) == BisectorSide(p, a, b) = 0
OnBisector(e, a, b) == Equidistant(e.start, a, b) /\ Equidistant(e.end, a, b)

TwoSites == Done /\ ~recording /\ Len(sorted_pts) = 2

\* C3 as stated: two sites that stay distinct give exactly one edge.
C3_Original == TwoSites => Len(edges) = 1

\* C3 amended: two distinct sites whose bisector meets the rectangle in more
\* than one point give exactly one edge, which joins two different boundary
\* points equidistant from both sites; otherwise there is no edge.  Sites
\* (0,0), (10,0) in the 600 x 600 rectangle give the edge (5,0)-(5,600).
C3_TwoSites ==
    TwoSites =>
        /\ IF BisectorCrosses(sorted_pts[1], sorted_pts[2])
           THEN /\ Len(edges) = 1
                /\ OnBisector(edges[1], sorted_pts[1], sorted_pts[2])
                /\ OnBoundary(edges[1].start) /\ OnBoundary(edges[1].end)
                /\ edges[1].start # edges[1].end
           ELSE edges = <<>>
        /\ (sorted_pts = <<IPoint(0, 0), IPoint(10, 0)>> /\ canvas_w = 600 /\ canvas_h = 600)
               => edges = <<Edge(IPoint(5, 0), IPoint(5, 600))>>

\* C3 witness: the scenario has been computed.
C3_Witness ==
    /\ TwoSites /\ canvas_w = 600
    /\ sorted_pts = <<IPoint(0, 0), IPoint(10, 0)>> /\ Len(edges) = 1

ThreeSites == Done /\ ~recording /\ Len(sorted_pts) = 3
NonCollinear(ps) == cross(ps[1], ps[2], ps[3]) # Zero
MidPoint(e) == Point(RHalf(RAdd(e.start.x, e.end.x)), RHalf(RAdd(e.start.y, e.end.y)))
\* at p the sites a and b are nearest among all_sites, any other strictly farther
NearestPair(p, a, b, all_sites) ==
    /\ Equidistant(p, a, b)
    /\ \A i \in 1..Len(all_sites) :
           all_sites[i] \notin {a, b} => BisectorSide(p, all_sites[i], a) > 0
\* p is within one sampling interval, refined by the bisection rounds, of q
NearTo(p, q) ==
    /\ RLe(RAbs(RSub(p.x, q.x)), Rat(canvas_w, (MinSamples - 1) * (2 ^ FilterRounds)))
    /\ RLe(RAbs(RSub(p.y, q.y)), Rat(canvas_h, (MinSamples - 1) * (2 ^ FilterRounds)))
\* e runs from the boundary to (near) q, along the bisector of a and b
RayTo(e, q, a, b, all_sites) ==
    /\ OnBisector(e, a, b)
    /\ NearestPair(MidPoint(e), a, b, all_sites)
    /\ \/ OnBoundary(e.start) /\ NearTo(e.end, q)
       \/ OnBoundary(e.end) /\ NearTo(e.start, q)
SitePairs(ps) == {<<ps[1], ps[2]>>, <<ps[2], ps[3]>>, <<ps[3], ps[1]>>}

ManySites == Done /\ ~recording /\ Len(sorted_pts) >= 4
\* the points of e away from its endpoints that the check looks at
InnerPoints(e) ==
    {Lerp(e.start, e.end, Rat(k, 8)) : k \in 1..7}
\* brute-force search: no site is nearer to p than a (and b)
GloballyNearest(p, a, b, all_sites) ==
    /\ Equidistant(p, a, b)
    /\ \A i \in 1..Len(all_sites) : BisectorSide(p, all_sites[i], a) >= 0
\* the pairs of sites whose bisector carries e
Carriers(e, all_sites) ==
    {pr \in {<<i, j>> : i, j \in 1..Len(all_sites)} :
        pr[1] < pr[2] /\ OnBisector(e, all_sites[pr[1]], all_sites[pr[2]])}

\* C5: with four or more sites, every returned edge lies on the bisector of
\* a pair of sites, and at each of its inner points that pair is equidistant
\* and no site of the whole input is nearer.
C5_NearestPair ==
    ManySites =>
        \A k \in 1..Len(edges) :
            /\ edges[k].start # edges[k].end
            /\ \E pr \in Carriers(edges[k], sorted_pts) :
                   \A p \in InnerPoints(edges[k]) :
                       GloballyNearest(p, sorted_pts[pr[1]], sorted_pts[pr[2]], sorted_pts)

\* C5 witness: a run on five sites has returned at least four edges.
C5_Witness == ManySites /\ Len(sorted_pts) = 5 /\ Len(edges) >= 4

\* four sites (x1,y1), (x1,y2), (x2,y1), (x2,y2) strictly inside the rectangle
IsGrid(ps) ==
    /\ Len(ps) = 4
    /\ ps[1].x = ps[2].x /\ ps[3].x = ps[4].x /\ RLt(ps[1].x, ps[3].x)
    /\ ps[1].y = ps[3].y /\ ps[2].y = ps[4].y /\ RLt(ps[1].y, ps[2].y)
    /\ \A i \in 1..4 : StrictlyInRect(ps[i])
GridCentre(ps) == Point(RHalf(RAdd(ps[1].x, ps[3].x)), RHalf(RAdd(ps[1].y, ps[2].y)))
AxisAligned(e) == (e.start.x = e.end.x) # (e.start.y = e.end.y)
\* the boundary points where the two axis-aligned cell boundaries leave the rectangle
GridExits(ps) ==
    LET c == GridCentre(ps)
    IN  {Point(c.x, Zero), Point(c.x, I2R(canvas_h)), Point(Zero, c.y), Point(I2R(canvas_w), c.y)}
GridCase == Done /\ ~recording /\ IsGrid(sorted_pts)

\* C6: four sites forming a 2x2 axis-aligned grid inside the rectangle give
\* exactly 4 edges; each is axis-aligned, lies on the cell boundary through
\* the grid centre, has one endpoint on the rectangle boundary (the four
\* edges leave through the four different sides) and the other at the grid
\* centre up to the sampling precision; none lies on the bisector of two
\* diagonally opposite sites.
C6_Grid ==
    GridCase =>
        /\ Len(edges) = 4
        /\ \A k \in 1..Len(edges) :
               /\ AxisAligned(edges[k])
               /\ \/ edges[k].start \in GridExits(sorted_pts) /\ NearTo(edges[k].end, GridCentre(sorted_pts))
                  \/ edges[k].end \in GridExits(sorted_pts) /\ NearTo(edges[k].start, GridCentre(sorted_pts))
               /\ ~OnBisector(edges[k], sorted_pts[1], sorted_pts[4])
               /\ ~OnBisector(edges[k], sorted_pts[2], sorted_pts[3])
        /\ \A q \in GridExits(sorted_pts) :
               \E k \in 1..Len(edges) : q \in {edges[k].start, edges[k].end}

\* C6 witness: a grid that is not a square has been computed.
C6_Witness ==
    /\ GridCase /\ Len(edges) = 4
    /\ RSub(sorted_pts[3].x, sorted_pts[1].x) # RSub(sorted_pts[2].y, sorted_pts[1].y)

Recorded == Done /\ recording
StepSites(st) == st.left_sites \o st.right_sites
SiteSet(ps) == {ps[i] : i \in 1..Len(ps)}
\* the index in the sorted site array at which the slice of step st begins
SliceStart(st) == CHOOSE i \in 1..Len(sorted_pts) : sorted_pts[i] = st.left_sites[1]

\* C7: computeWithSteps on n >= 1 sites returns exactly n-1 MergeSteps; the
\* recursion stops only at single sites, so every step has at least one site
\* on each side, and a subsequence of two or three sites is split too.
C7_StepCount ==
    /\ (Recorded /\ Len(sorted_pts) >= 1) => Len(steps) = Len(sorted_pts) - 1
    /\ \A i \in 1..Len(steps) :
           /\ Len(steps[i].left_sites) >= 1 /\ Len(steps[i].right_sites) >= 1
           /\ Len(steps[i].left_sites) = Len(StepSites(steps[i])) \div 2

\* C7 witness: a recorded run on five sites is done, with steps that merge
\* two and three sites.
C7_Witness ==
    /\ Recorded /\ Len(sorted_pts) = 5 /\ Len(steps) = 4
    /\ \E i, j \in 1..Len(steps) :
           Len(StepSites(steps[i])) = 2 /\ Len(StepSites(steps[j])) = 3

\* C8 as stated: a step of a deeper recursion level comes before every step
\* of a shallower level.
C8_Original ==
    Recorded => \A i, j \in 1..Len(steps) : levels[i] > levels[j] => i < j

\* C8 amended: the MergeStep of a subproblem is appended before the
\* MergeStep of every subproblem that contains it (post-order), so a step is
\* deeper than every later step on its own branch.
C8_PostOrder ==
    /\ Len(levels) = Len(steps)
    /\ \A i, j \in 1..Len(steps) :
           (i # j /\ SiteSet(StepSites(steps[i])) \subseteq SiteSet(StepSites(steps[j])))
               => (i < j /\ levels[i] > levels[j])

\* C8 witness: a left subtree's merge has been appended before a deeper
\* merge of the right subtree.
C8_Witness ==
    /\ Recorded
    /\ \E i, j \in 1..Len(steps) : i < j /\ levels[i] < levels[j]

\* C9: of two MergeSteps of the same recursion level, the one whose sites
\* are the earlier slice of the sorted site array is appended first.
C9_LeftBeforeRight ==
    /\ Len(levels) = Len(steps)
    /\ \A i, j \in 1..Len(steps) :
           (levels[i] = levels[j] /\ SliceStart(steps[i]) < SliceStart(steps[j])) => i < j

\* C9 witness: two steps of the same level are in the sequence.
C9_Witness ==
    /\ Recorded
    /\ \E i, j \in 1..Len(steps) : i < j /\ levels[i] = levels[j]

\* the hulls the engine has produced so far, each with its generating sites
HullsOfStep(st) ==
    {<<st.left_hull, st.left_sites>>, <<st.right_hull, st.right_sites>>,
     <<st.merged_hull, StepSites(st)>>}
HullsOfFrame(f) ==
    (IF f.at \in {"right", "merge"} THEN {<<f.left_diagram.hull, LeftPoints(f)>>} ELSE {})
    \cup (IF f.at = "merge" THEN {<<f.right_diagram.hull, RightPoints(f)>>} ELSE {})
AllHulls ==
    UNION {HullsOfStep(steps[i]) : i \in 1..Len(steps)}
    \cup UNION {HullsOfFrame(stack[k]) : k \in 1..Len(stack)}
\* the sign of the turn o -> a -> b: 1 left, -1 right, 0 collinear
Turn(o, a, b) ==
    RSign(RSub(RMul(RSub(a.x, o.x), RSub(b.y, o.y)), RMul(RSub(a.y, o.y), RSub(b.x, o.x))))
InRange(v, a, b) == (RLe(a, v) /\ RLe(v, b)) \/ (RLe(b, v) /\ RLe(v, a))
Between(p, a, b) == Turn(a, b, p) = 0 /\ InRange(p.x, a.x, b.x) /\ InRange(p.y, a.y, b.y)
CycNext(i, n) == (i % n) + 1
\* p lies strictly outside the polygon (segment, point) with vertices hull
StrictlyOutside(p, hull) ==
    LET n == Len(hull)
    IN  IF n = 0 THEN TRUE
        ELSE IF n = 1 THEN p # hull[1]
        ELSE IF n = 2 THEN ~Between(p, hull[1], hull[2])
        ELSE /\ \E i \in 1..n : Turn(hull[i], hull[CycNext(i, n)], p) < 0
             /\ \E i \in 1..n : Turn(hull[i], hull[CycNext(i, n)], p) > 0
ValidHull(hull, sites) ==
    LET n == Len(hull)
    IN  /\ \A i \in 1..n : hull[i] \in SiteSet(sites)
        /\ \A i \in 1..Len(sites) : ~StrictlyOutside(sites[i], hull)
        /\ n >= 3 => \A i \in 1..n :
               Turn(hull[i], hull[CycNext(i, n)], hull[CycNext(CycNext(i, n), n)]) # 0

\* C10: every hull the engine produces (of each diagram, and the left,
\* right and merged hull of each MergeStep) has only generating sites as
\* vertices, leaves no generating site strictly outside, and has no three
\* consecutive vertices (cyclically) on a line.
C10_HullValid == \A hs \in AllHulls : ValidHull(hs[1], hs[2])

\* C10 witness: a hull of at least four vertices whose sites include one
\* that lies on a hull side between two vertices and is left out.
C10_Witness ==
    \E hs \in AllHulls :
        /\ Len(hs[1]) >= 4
        /\ \E i \in 1..Len(hs[2]), k \in 1..Len(hs[1]) :
               /\ hs[2][i] \notin SiteSet(hs[1])
               /\ Between(hs[2][i], hs[1][k], hs[1][CycNext(k, Len(hs[1]))])

FirstOfKey(ps) ==
    {i \in 1..Len(ps) : \A j \in 1..(i - 1) : PointKey(ps[j]) # PointKey(ps[i])}

C12_FirstOfEachKey ==
    /\ unique_points(points) = Pick(points, FirstOfKey(points))
    /\ pc # "idle" => sorted_pts = SortPoints(Pick(points, FirstOfKey(points)))

\* a call on an input whose second and third site repeat the key of the
\* first with other coordinates, and on one that repeats a site after another
C12_Witness ==
    /\ pc = "done"
    /\ \/ points = <<Twins[2], Twins[1], Twins[2]>> /\ sorted_pts = <<Twins[2]>>
       \/ /\ Len(points) = 3 /\ points[3] = points[1] /\ points[2] # points[1]
          /\ unique_points(points) = <<points[1], points[2]>>

(***************************************************************************)
(* C13.  Termination: every active call of _build_voronoi has at least one *)
(* site and strictly fewer sites than the call that made it, a call that   *)
(* has not returned can always take its next step, and every step lowers a *)
(* natural number: every call of an entry point returns.                   *)
(***************************************************************************)
FramesShrink ==
    \A i \in 1..Len(stack) :
        /\ Len(stack[i].points_sorted) >= 1
        /\ i > 1 => Len(stack[i].points_sorted) < Len(stack[i - 1].points_sorted)

\* a call that has not returned can take its next step: the innermost call
\* is at its start or at its merge, every other call waits for a child, and
\* a call that has split has a site on either side (line 158 reads
\* left_points[-1] and right_points[0])
CanStep ==
    pc = "build" =>
        /\ stack # <<>>
        /\ Top.at \in {"call", "merge"}
        /\ \A i \in 1..(Len(stack) - 1) : stack[i].at \in {"left", "right"}
        /\ \A i \in 1..Len(stack) :
               stack[i].at # "call" => Len(stack[i].points_sorted) >= 2

\* the number of steps a call can still take is at most: 3n - 2 for a call
\* on n sites at its start, one more than 3r - 2 while it waits for its left
\* child with r sites on the right, and 1 from the return of the left child on
FrameWeight(f) ==
    IF f.at = "call" THEN 3 * Len(f.points_sorted) - 2
    ELSE IF f.at = "left"
    THEN 3 * (Len(f.points_sorted) - (Len(f.points_sorted) \div 2)) - 1
    ELSE 1

RECURSIVE StackWeight(_)
StackWeight(st) ==
    IF st = <<>> THEN 0 ELSE FrameWeight(Head(st)) + StackWeight(Tail(st))

Variant ==
    IF pc = "idle" THEN 3 * Len(points) + 1
    ELSE IF pc = "build" THEN 1 + StackWeight(stack)
    ELSE 0

C13_Terminates ==
    /\ []FramesShrink
    /\ []CanStep
    /\ [][Variant' < Variant /\ Variant' >= 0]_vars

\* the recursion on five recorded sites has reached a single site at depth 3
C13_Witness ==
    /\ pc = "build" /\ recording
    /\ Len(stack) = 4
    /\ Len(stack[1].points_sorted) = 5
    /\ Len(Top.points_sorted) = 1

(***************************************************************************)
(* C14.  The step sink is append-only: while compute_voronoi_with_steps    *)
(* runs, every step of the program leaves the steps recorded so far in     *)
(* place and unchanged and at most adds steps after them, so that the sink *)
(* is at every moment a prefix of the sequence finally returned.           *)
(***************************************************************************)
IsPrefix(a, b) == Len(a) <= Len(b) /\ SubSeq(b, 1, Len(a)) = a

C14_AppendOnly == [][(pc = "build" /\ recording) => IsPrefix(steps, steps')]_vars

\* the sink holds two steps while a call below the outermost one is active
C14_Witness == pc = "build" /\ recording /\ Len(steps) = 2 /\ Len(stack) >= 2

(***************************************************************************)
(* C15.  Three distinct collinear sites: compute_voronoi returns, the      *)
(* circumcentre is absent, and every edge returned lies on the bisector of *)
(* the middle site and one of the outer sites, none on the bisector of the *)
(* two outer sites.  (Of collinear sites in sorted order the second is the *)
(* middle one.)                                                            *)
(***************************************************************************)
Collinear(ps) == cross(ps[1], ps[2], ps[3]) = Zero

C15_Collinear ==
    (ThreeSites /\ Collinear(sorted_pts)) =>
        /\ circumcenter(sorted_pts[1], sorted_pts[2], sorted_pts[3]) = <<>>
        /\ \A i \in 1..Len(edges) :
               /\ \/ OnBisector(edges[i], sorted_pts[1], sorted_pts[2])
                  \/ OnBisector(edges[i], sorted_pts[2], sorted_pts[3])
               /\ ~OnBisector(edges[i], sorted_pts[1], sorted_pts[3])

\* three sites on a horizontal line: one edge on either adjacent bisector
C15_Witness ==
    /\ ThreeSites /\ Collinear(sorted_pts)
    /\ Len(edges) = 2
    /\ OnBisector(edges[1], sorted_pts[1], sorted_pts[2])
    /\ OnBisector(edges[2], sorted_pts[2], sorted_pts[3])

(***************************************************************************)
(* C16.  Every call of _build_voronoi, at any depth and in either mode, is *)
(* made on a non-empty site sequence that is strictly increasing in        *)
(* (x, then y) order and has no two sites with the same rounded key.       *)
(***************************************************************************)
StrictlyIncreasing(ps) == \A i \in 1..(Len(ps) - 1) : PointLt(ps[i], ps[i + 1])
DistinctKeys(ps) ==
    \A i, j \in 1..Len(ps) : i # j => PointKey(ps[i]) # PointKey(ps[j])

C16_CallsSortedUnique ==
    \A i \in 1..Len(stack) :
        /\ stack[i].points_sorted # <<>>
        /\ StrictlyIncreasing(stack[i].points_sorted)
        /\ DistinctKeys(stack[i].points_sorted)

\* a call below the outermost one on two or more sites, for an input that
\* was not given sorted and free of repetitions
C16_Witness ==
    /\ pc = "build"
    /\ Len(stack) >= 2
    /\ Len(Top.points_sorted) >= 2
    /\ points # sorted_pts

(***************************************************************************)
(* C17.  A split of n >= 2 sorted sites gives the first floor(n/2) sites   *)
(* to the left and the other ceil(n/2) to the right: both parts are        *)
(* non-empty and disjoint, the left part followed by the right part is the *)
(* sequence split, every left site precedes every right site in (x, y)     *)
(* order, and the split coordinate recorded is the mean of the x of the    *)
(* last left site and of the first right site.  Checked on every call      *)
(* waiting for a child and on every recorded step.                         *)
(***************************************************************************)
IsSplit(whole, l, r) ==
    /\ Len(whole) >= 2
    /\ l = SubSeq(whole, 1, Len(whole) \div 2)
    /\ r = SubSeq(whole, (Len(whole) \div 2) + 1, Len(whole))
    /\ Len(l) = Len(whole) \div 2
    /\ Len(r) = Len(whole) - (Len(whole) \div 2)
    /\ l # <<>> /\ r # <<>>
    /\ l \o r = whole
    /\ SiteSet(l) \cap SiteSet(r) = {}
    /\ \A i \in 1..Len(l) : \A j \in 1..Len(r) : PointLt(l[i], r[j])

\* the sites of a recorded step are a call's sequence: a run of sorted_pts
IsRunOfSorted(ps) ==
    \E k \in 0..(Len(sorted_pts) - Len(ps)) : ps = SubSeq(sorted_pts, k + 1, k + Len(ps))

C17_Split ==
    /\ \A i \in 1..(Len(stack) - 1) :
           /\ stack[i].at = "left" =>
                 IsSplit(stack[i].points_sorted, stack[i + 1].points_sorted,
                         SubSeq(stack[i].points_sorted,
                                Len(stack[i + 1].points_sorted) + 1,
                                Len(stack[i].points_sorted)))
           /\ stack[i].at = "right" =>
                 IsSplit(stack[i].points_sorted,
                         SubSeq(stack[i].points_sorted, 1,
                                Len(stack[i].points_sorted)
                                    - Len(stack[i + 1].points_sorted)),
                         stack[i + 1].points_sorted)
    /\ \A k \in 1..Len(steps) :
           /\ IsRunOfSorted(StepSites(steps[k]))
           /\ IsSplit(StepSites(steps[k]), steps[k].left_sites, steps[k].right_sites)
           /\ steps[k].median_x =
                  RHalf(RAdd(steps[k].left_sites[Len(steps[k].left_sites)].x,
                             steps[k].right_sites[1].x))

\* five sites split 2 + 3: the right call is active and the left step recorded
C17_Witness ==
    /\ pc = "build" /\ recording
    /\ Len(stack) >= 2
    /\ stack[1].at = "right"
    /\ Len(stack[1].points_sorted) = 5
    /\ Len(stack[2].points_sorted) = 3
    /\ steps # <<>>

(***************************************************************************)
(* C18.  compute_voronoi on n >= 4 sites (steps not recorded): no call is  *)
(* made on fewer than 2 sites, no MergeStep is created, and a call that    *)
(* returns without splitting has exactly 2 or 3 sites and hands its caller *)
(* the diagram of the closed-form solver for 2 or 3 sites.                 *)
(***************************************************************************)
Unrecorded == pc = "build" /\ ~recording

NoSmallCall ==
    Unrecorded =>
        /\ Len(sorted_pts) >= 4
        /\ \A i \in 1..Len(stack) : Len(stack[i].points_sorted) >= 2

\* the innermost call is at its start and this step does not make it split
LeafReturns == Top.at = "call" /\ Len(stack') <= Len(stack)

\* the diagram the caller of the innermost call holds after the step
HandedUp ==
    IF stack[Len(stack) - 1].at = "left"
    THEN stack'[Len(stack) - 1].left_diagram
    ELSE stack'[Len(stack) - 1].right_diagram

ClosedForm(ps) ==
    IF Len(ps) = 2
    THEN VoronoiDiagram(voronoi_two_points(ps[1], ps[2], canvas_w, canvas_h), SortPoints(ps))
    ELSE VoronoiDiagram(voronoi_three_points(ps, canvas_w, canvas_h),
                        convex_hull_simple(ps))

C18_UnrecordedLeaves ==
    /\ []NoSmallCall
    /\ [][Unrecorded => steps' = steps]_vars
    /\ [][(Unrecorded /\ LeafReturns) =>
              /\ Len(Top.points_sorted) \in {2, 3}
              /\ Len(stack) >= 2
              /\ HandedUp = ClosedForm(Top.points_sorted)]_vars

\* five sites: the leaf of 2 sites has returned its edge and the leaf of 3
\* sites is about to be solved
C18_Witness ==
    /\ Unrecorded
    /\ Len(stack) = 2
    /\ stack[1].at = "right"
    /\ stack[1].left_diagram.edges # <<>>
    /\ Top.at = "call"
    /\ Len(Top.points_sorted) = 3

(***************************************************************************)
(* C19.  The edges of a merged diagram are the trimmed left edges, then    *)
(* the trimmed right edges, then the dividing chain.  Every merge hands up *)
(* (or returns) exactly this list; while recording, the diagram a call     *)
(* holds for a child of two or more sites has the edges of that child's    *)
(* MergeStep; and compute_voronoi_with_steps on n >= 2 sites returns the   *)
(* edges of its last step, which is the merge of all the sites.            *)
(***************************************************************************)
FirstHalf(ps) == SubSeq(ps, 1, Len(ps) \div 2)
SecondHalf(ps) == SubSeq(ps, (Len(ps) \div 2) + 1, Len(ps))

\* the diagram d of a call on the sites ps has the edges of the step of ps
EdgesOfOwnStep(d, ps) ==
    Len(ps) >= 2 =>
        \E k \in 1..Len(steps) :
            StepSites(steps[k]) = ps /\ d.edges = StepEdges(steps[k])

HeldDiagramsMatch ==
    (pc = "build" /\ recording) =>
        \A i \in 1..Len(stack) :
            /\ stack[i].at \in {"right", "merge"} =>
                   EdgesOfOwnStep(stack[i].left_diagram, FirstHalf(stack[i].points_sorted))
            /\ stack[i].at = "merge" =>
                   EdgesOfOwnStep(stack[i].right_diagram,
                                  SecondHalf(stack[i].points_sorted))

LastStepIsRoot ==
    (Recorded /\ Len(sorted_pts) >= 2) =>
        /\ steps # <<>>
        /\ StepSites(steps[Len(steps)]) = sorted_pts
        /\ edges = StepEdges(steps[Len(steps)])

\* the edges a merge hands to its caller, or returns from the outermost call
MergedUp == IF Len(stack) = 1 THEN edges' ELSE HandedUp.edges

MergeConcatenates ==
    (pc = "build" /\ Top.at = "merge") =>
        MergedUp =
            trim_edges_by_hp(Top.left_diagram.edges, FirstHalf(Top.points_sorted),
                             SecondHalf(Top.points_sorted), TRUE)
            \o trim_edges_by_hp(Top.right_diagram.edges, FirstHalf(Top.points_sorted),
                                SecondHalf(Top.points_sorted), FALSE)
            \o compute_dividing_chain(FirstHalf(Top.points_sorted),
                                      SecondHalf(Top.points_sorted),
                                      canvas_w, canvas_h, Top.points_sorted)

C19_MergedEdges ==
    /\ []HeldDiagramsMatch
    /\ []LastStepIsRoot
    /\ [][MergeConcatenates]_vars

\* five recorded sites: the last step has edges of all three kinds
C19_Witness ==
    /\ Recorded
    /\ Len(sorted_pts) = 5
    /\ steps[Len(steps)].left_edges # <<>>
    /\ steps[Len(steps)].right_edges # <<>>
    /\ steps[Len(steps)].hyperplane_edges # <<>>

(***************************************************************************)
(* C20.  The hull of every diagram is the monotone-chain convex hull of    *)
(* the diagram's own sites, computed from the sites alone: in every        *)
(* MergeStep left_hull, right_hull and merged_hull are the hulls of        *)
(* left_sites, right_sites and left_sites ++ right_sites, and the diagram  *)
(* a call holds for a child has the hull of the child's sites, in both     *)
(* modes.                                                                  *)
(***************************************************************************)
StepHullsOwn(st) ==
    /\ st.left_hull = convex_hull_simple(st.left_sites)
    /\ st.right_hull = convex_hull_simple(st.right_sites)
    /\ st.merged_hull = convex_hull_simple(st.left_sites \o st.right_sites)

C20_HullsFromSites ==
    /\ \A k \in 1..Len(steps) : StepHullsOwn(steps[k])
    /\ \A i \in 1..Len(stack) :
           /\ stack[i].at \in {"right", "merge"} =>
                  stack[i].left_diagram.hull =
                      convex_hull_simple(FirstHalf(stack[i].points_sorted))
           /\ stack[i].at = "merge" =>
                  stack[i].right_diagram.hull =
                      convex_hull_simple(SecondHalf(stack[i].points_sorted))

\* a recorded step whose merged hull has fewer vertices than the hulls of
\* its children taken together
C20_Witness ==
    /\ Recorded
    /\ \E k \in 1..Len(steps) :
           /\ Len(steps[k].left_hull) >= 2
           /\ Len(steps[k].right_hull) >= 3
           /\ Len(steps[k].merged_hull) <
                  Len(steps[k].left_hull) + Len(steps[k].right_hull)

(***************************************************************************)
(* The dividing chain against the true nearest-pair portions               *)
(* (_compute_dividing_chain, lines 256-291; the classifier, lines 549-677) *)
(***************************************************************************)
RMax(a, b) == IF RLt(a, b) THEN b ELSE a
SeqSet(s) == {s[i] : i \in 1..Len(s)}

\* the parameters t in [0, 1] of the chord c at which the site s is not
\* nearer than the site a, as an interval <<lo, hi>> (empty when lo > hi);
\* the difference of the two squared distances is linear in t
NotNearerAt(g0, g1) ==
    IF RSign(g0) >= 0 /\ RSign(g1) >= 0 THEN <<Zero, One>>
    ELSE IF RSign(g0) < 0 /\ RSign(g1) < 0 THEN <<One, Zero>>
    ELSE IF RSign(g0) >= 0 THEN <<Zero, RDiv(g0, RSub(g0, g1))>>
    ELSE <<RDiv(g0, RSub(g0, g1)), One>>
NotNearer(c, a, s) ==
    NotNearerAt(RSub(RelDist(c.start.x, c.start.y, s), RelDist(c.start.x, c.start.y, a)),
                RSub(RelDist(c.end.x, c.end.y, s), RelDist(c.end.x, c.end.y, a)))

\* the part of the chord c of the bisector of a and b on which no site of
\* all_sites is nearer than a and b
RECURSIVE TruePortion(_, _, _, _)
TruePortion(c, a, b, all_sites) ==
    IF all_sites = <<>> THEN <<Zero, One>>
    ELSE LET rest == TruePortion(c, a, b, Tail(all_sites))
             here == IF Head(all_sites) \in {a, b} THEN <<Zero, One>>
                     ELSE NotNearer(c, a, Head(all_sites))
         IN  <<RMax(rest[1], here[1]), RMin(rest[2], here[2])>>

\* p is within one sampling interval of the chord c, refined by the
\* bisection rounds, of q
NearOnChord(p, q, c, samples) ==
    /\ RLe(RAbs(RSub(p.x, q.x)), RMul(RAbs(RSub(c.end.x, c.start.x)), Rat(1, (samples - 1) * (2 ^ FilterRounds))))
    /\ RLe(RAbs(RSub(p.y, q.y)), RMul(RAbs(RSub(c.end.y, c.start.y)), Rat(1, (samples - 1) * (2 ^ FilterRounds))))
\* the edge e runs from (near) P to (near) Q on the chord c
RunsBetween(e, P, Q, c, samples) ==
    \/ NearOnChord(e.start, P, c, samples) /\ NearOnChord(e.end, Q, c, samples)
    \/ NearOnChord(e.end, P, c, samples) /\ NearOnChord(e.start, Q, c, samples)
\* the edge e covers the part iv of the chord c
Covers(e, c, iv) ==
    RunsBetween(e, Lerp(c.start, c.end, iv[1]), Lerp(c.start, c.end, iv[2]), c,
            SampleCount(c.start, c.end, FilterLenPerSample))

\* the true portion iv of the chord c is longer than the minimum length
LongPortion(c, iv) ==
    /\ RLt(iv[1], iv[2])
    /\ LenGtInv(Lerp(c.start, c.end, iv[1]), Lerp(c.start, c.end, iv[2]), MinSegInv)

\* the chain hp holds the true portion of the pair (a, b), if it is long
PortionAppearsOn(hp, c, iv, a, b) ==
    LongPortion(c, iv) =>
        \E k \in 1..Len(hp) : OnBisector(hp[k], a, b) /\ Covers(hp[k], c, iv)
PortionAppearsIn(hp, c, a, b, all_sites) ==
    PortionAppearsOn(hp, c, TruePortion(c, a, b, all_sites), a, b)
PortionAppears(st, chord, a, b) ==
    chord # <<>> => PortionAppearsIn(st.hyperplane_edges, chord[1], a, b, StepSites(st))

\* every edge of the chain lies on the bisector of a cross pair that is the
\* nearest pair of the combined sites at each of its inner points
ChainSound(st) ==
    \A k \in 1..Len(st.hyperplane_edges) :
        \E a \in SeqSet(st.left_sites), b \in SeqSet(st.right_sites) :
            /\ OnBisector(st.hyperplane_edges[k], a, b)
            /\ \A p \in InnerPoints(st.hyperplane_edges[k]) :
                   GloballyNearest(p, a, b, StepSites(st))

\* C21: in every recorded merge, for every cross pair (L, R), the dividing
\* chain holds the portion of the L-R bisector inside the rectangle on which
\* L and R are the two nearest sites of the combined set whenever that
\* portion is longer than the minimum length, and nothing else.
C21_ChainExact ==
    \A i \in 1..Len(steps) :
        /\ ChainSound(steps[i])
        /\ \A a \in SeqSet(steps[i].left_sites), b \in SeqSet(steps[i].right_sites) :
               PortionAppears(steps[i],
                              ChordOf(ThroughInRect(perp_bisector(a, b), a, TRUE,
                                                    canvas_w, canvas_h)),
                              a, b)

(***************************************************************************)
(* The side of the kept parts (_trim_edges_by_hp, lines 710-820;           *)
(* _side_value, lines 682-707)                                             *)
(***************************************************************************)
\* along an edge the squared distance to a site, less the common part, is
\* linear: the parameter at which two sites are equally far, if there is
\* one strictly inside the edge
Crossing(h0, h1) ==
    IF RSign(h0) * RSign(h1) < 0 THEN {RDiv(h0, RSub(h0, h1))} ELSE {}
CrossingOf(e, s1, s2) ==
    Crossing(RSub(RelDist(e.start.x, e.start.y, s1), RelDist(e.start.x, e.start.y, s2)),
             RSub(RelDist(e.end.x, e.end.y, s1), RelDist(e.end.x, e.end.y, s2)))
\* f = dR - dL is piecewise linear along e; its pieces end where the
\* nearest left site or the nearest right site changes
Breaks(e, sites) ==
    UNION {CrossingOf(e, sites[i], sites[j]) : i, j \in 1..Len(sites)}
PiecePoints(e, left_sites, right_sites) ==
    {e.start, e.end}
    \cup {Lerp(e.start, e.end, t) : t \in Breaks(e, left_sites) \cup Breaks(e, right_sites)}

\* f at the point p
FAt(p, left_sites, right_sites) == side_value(p.x, p.y, left_sites, right_sites)
\* f >= -1e-6 (left edge), f <= 1e-6 (right edge) at every point of e
OnOwnSide(e, left_sites, right_sites, keep_left) ==
    \A p \in PiecePoints(e, left_sites, right_sites) :
        IF keep_left
        THEN GeNegInv(FAt(p, left_sites, right_sites), TrimTolInv)
        ELSE LeInv(FAt(p, left_sites, right_sites), TrimTolInv)

\* p lies on the segment e
OnSegment(p, e) ==
    /\ cross(e.start, e.end, p) = Zero
    /\ RLe(RMin(e.start.x, e.end.x), p.x) /\ RLe(p.x, RMax(e.start.x, e.end.x))
    /\ RLe(RMin(e.start.y, e.end.y), p.y) /\ RLe(p.y, RMax(e.start.y, e.end.y))
SubSegment(d, e) == OnSegment(d.start, e) /\ OnSegment(d.end, e)

\* the trimmer's output out for the input edges ins
TrimmedWell(out, ins, left_sites, right_sites, keep_left) ==
    \A k \in 1..Len(out) :
        /\ \E j \in 1..Len(ins) : SubSegment(out[k], ins[j])
        /\ OnOwnSide(out[k], left_sites, right_sites, keep_left)
TrimsWell(ins, left_sites, right_sites, keep_left) ==
    TrimmedWell(trim_edges_by_hp(ins, left_sites, right_sites, keep_left),
                ins, left_sites, right_sites, keep_left)

\* C22: what the trimmer makes of the left diagram of a call about to merge
\* are sub-segments of that diagram's edges on which f = dR - dL >= -1e-6 at
\* every point, and of the right diagram sub-segments on which f <= 1e-6;
\* the left and right edges of every recorded step are on their own side
\* in the same sense.
C22_KeptSide ==
    /\ \A i \in 1..Len(stack) :
           stack[i].at = "merge" =>
               /\ TrimsWell(stack[i].left_diagram.edges, LeftPoints(stack[i]),
                            RightPoints(stack[i]), TRUE)
               /\ TrimsWell(stack[i].right_diagram.edges, LeftPoints(stack[i]),
                            RightPoints(stack[i]), FALSE)
    /\ \A k \in 1..Len(steps) :
           /\ \A j \in 1..Len(steps[k].left_edges) :
                  OnOwnSide(steps[k].left_edges[j], steps[k].left_sites,
                            steps[k].right_sites, TRUE)
           /\ \A j \in 1..Len(steps[k].right_edges) :
                  OnOwnSide(steps[k].right_edges[j], steps[k].left_sites,
                            steps[k].right_sites, FALSE)

\* a recorded step of five sites whose left edges and right edges both
\* include an edge that ends strictly inside the rectangle, where it was cut
C22_Witness ==
    /\ Recorded
    /\ Len(sorted_pts) = 5
    /\ \E k \in 1..Len(steps) :
           /\ \E j \in 1..Len(steps[k].left_edges) :
                  StrictlyInRect(steps[k].left_edges[j].end)
                  \/ StrictlyInRect(steps[k].left_edges[j].start)
           /\ \E j \in 1..Len(steps[k].right_edges) :
                  StrictlyInRect(steps[k].right_edges[j].end)
                  \/ StrictlyInRect(steps[k].right_edges[j].start)

(***************************************************************************)
(* One segment for every run of kept samples (lines 610-669, 779-818)      *)
(***************************************************************************)
\* the maximal runs of TRUE in flags[0..n-1], as <<first, last>>, in order
RunFirsts(flags, n) == {i \in 0..(n - 1) : flags[i] /\ (i = 0 \/ ~flags[i - 1])}
RunLasts(flags, n) == {i \in 0..(n - 1) : flags[i] /\ (i = n - 1 \/ ~flags[i + 1])}
RunsOf(firsts, lasts) == [k \in 1..Len(firsts) |-> <<firsts[k], lasts[k]>>]
Runs(flags, n) == RunsOf(SetToSeq(RunFirsts(flags, n)), SetToSeq(RunLasts(flags, n)))

\* sample i of n on the segment e
SampleAt(e, i, n) == Lerp(e.start, e.end, Rat(i, n - 1))
\* the segment d is the one of the run from sample f to sample l of the n
\* samples of e: it starts at e.start when f = 0, else after the dropped
\* sample f - 1 and not after sample f; it ends at e.end when l = n - 1,
\* else not before sample l and before the dropped sample l + 1
SegmentOfRun(d, e, f, l, n) ==
    /\ IF f = 0 THEN d.start = e.start
       ELSE /\ OnSegment(d.start, Edge(SampleAt(e, f - 1, n), SampleAt(e, f, n)))
            /\ d.start # SampleAt(e, f - 1, n)
    /\ IF l = n - 1 THEN d.end = e.end
       ELSE /\ OnSegment(d.end, Edge(SampleAt(e, l, n), SampleAt(e, l + 1, n)))
            /\ d.end # SampleAt(e, l + 1, n)
\* the segments segs are those of the runs, one each, in order
OnePerRunOf(segs, e, runs, n) ==
    /\ Len(segs) = Len(runs)
    /\ \A k \in 1..Len(runs) : SegmentOfRun(segs[k], e, runs[k][1], runs[k][2], n)
OnePerRun(segs, e, flags, n) == OnePerRunOf(segs, e, Runs(flags, n), n)

\* the trimmer has no list of segments before its length filter: its output
\* is matched with the runs in order, and a run may be left without a
\* segment only if its samples span no more than the trimmer's minimum
\* length (the segment of a run holds all its samples)
RECURSIVE OnePerLongRunOf(_, _, _, _)
OnePerLongRunOf(segs, e, runs, n) ==
    IF runs = <<>> THEN segs = <<>>
    ELSE IF segs # <<>> /\ SegmentOfRun(Head(segs), e, Head(runs)[1], Head(runs)[2], n)
    THEN OnePerLongRunOf(Tail(segs), e, Tail(runs), n)
    ELSE /\ ~LenGtInv(SampleAt(e, Head(runs)[1], n), SampleAt(e, Head(runs)[2], n),
                      TrimMinSegInv)
         /\ OnePerLongRunOf(segs, e, Tail(runs), n)
OnePerLongRun(segs, e, flags, n) == OnePerLongRunOf(segs, e, Runs(flags, n), n)

\* C23: given the keep/drop flags of the samples, the classifier (before
\* its length filter) and the edge trimmer (but for the runs its length
\* filter removes) have one segment for every maximal run of kept samples,
\* in the order of the runs, each from the boundary before its run to the
\* boundary after it, so that no two overlap; if every sample is kept the
\* single segment is the whole input segment, and if none is kept there is
\* no segment.
C23_OnePerRun ==
    /\ result.fn = "trim" =>
           OnePerLongRun(result.out, call.e, result.keep_flags,
                         SampleCount(call.e.start, call.e.end, TrimLenPerSample))
    /\ result.fn = "filter" =>
           OnePerRun(result.segs, call.e, result.mask,
                     SampleCount(call.e.start, call.e.end, FilterLenPerSample))

\* a trimmer call whose flags have two runs
C23_Witness ==
    /\ result.fn = "trim"
    /\ Len(Runs(result.keep_flags, MinSamples)) = 2
    /\ Len(result.out) = 2

(***************************************************************************)
(* The minimum lengths (lines 671-677, 803, 817)                           *)
(***************************************************************************)
\* no segment of segs is shorter than 1/K
NoneShorter(segs, K) ==
    \A k \in 1..Len(segs) : ~LenLtInv(segs[k].start, segs[k].end, K)

\* C24 as claimed: neither the classifier nor the edge trimmer returns a
\* segment shorter than 1e-5.
C24_Original == result.fn \in {"trim", "filter"} => NoneShorter(result.out, MinSegInv)

\* C24: the classifier returns no segment shorter than 1e-5 and the edge
\* trimmer no segment shorter than 1e-6.
C24_MinLengths ==
    /\ result.fn = "filter" => NoneShorter(result.out, MinSegInv)
    /\ result.fn = "trim" => NoneShorter(result.out, TrimMinSegInv)

\* C24 witness: the trimmer was called on an edge all of whose samples are
\* kept and returned nothing, the edge being shorter than 1e-6
C24_Witness ==
    /\ result.fn = "trim"
    /\ \A i \in 0..(MinSamples - 1) : result.keep_flags[i]
    /\ result.out = <<>>
    /\ LenLtInv(call.e.start, call.e.end, TrimMinSegInv)

(***************************************************************************)
(* The intersector (_intersect_line_with_rect, lines 433-482;              *)
(* _unique_points_on_rect, lines 484-500)                                  *)
(***************************************************************************)
\* p is on the boundary of [0, w] x [0, h]
OnRectBoundary(p, w, h) ==
    /\ RLe(Zero, p.x) /\ RLe(p.x, I2R(w))
    /\ RLe(Zero, p.y) /\ RLe(p.y, I2R(h))
    /\ (p.x = Zero \/ p.x = I2R(w) \/ p.y = Zero \/ p.y = I2R(h))
\* the side of the line through mid along dirv on which the point c lies
SideOfLine(mid, dirv, c) ==
    RSign(RSub(RMul(dirv.x, RSub(c.y, mid.y)), RMul(dirv.y, RSub(c.x, mid.x))))
\* the line has no point in the rectangle: its corners are strictly on one side
Misses(mid, dirv, w, h) ==
    \E sgn \in {-1, 1} :
        \A c \in {IPoint(0, 0), IPoint(w, 0), IPoint(0, h), IPoint(w, h)} :
            SideOfLine(mid, dirv, c) = sgn
SortedPoints(ps) == \A i \in 1..(Len(ps) - 1) : PointLt(ps[i], ps[i + 1])

\* the points out returned for the line and the rectangle of the call c
AtMostTwoOnBoundary(out, c) ==
    /\ Len(out) <= 2
    /\ \A i \in 1..Len(out) : OnRectBoundary(out[i], c.w, c.h)
    /\ SortedPoints(out)
    /\ Misses(c.mid, c.dirv, c.w, c.h) => out = <<>>

\* C25: for a line given by a point and a non-zero direction and positive w
\* and h, the intersector returns at most 2 points, each on the boundary
\* of [0, w] x [0, h], in (x, y) order, and none for a line that misses the
\* rectangle.
C25_AtMostTwo == result.fn = "intersect" => AtMostTwoOnBoundary(result.out, call)

(***************************************************************************)
(* compute_voronoi against compute_voronoi_with_steps on the same input    *)
(***************************************************************************)
\* the edges d and e are the same segment, in either direction, up to the
\* sampling interval refined by the bisection rounds
SameSegment(d, e) ==
    \/ NearTo(d.start, e.start) /\ NearTo(d.end, e.end)
    \/ NearTo(d.start, e.end) /\ NearTo(d.end, e.start)
\* the lists es and fs hold the same segments, as many in one as in the other
SameEdges(es, fs) ==
    /\ Len(es) = Len(fs)
    /\ \A i \in 1..Len(es) : \E j \in 1..Len(fs) : SameSegment(es[i], fs[j])
    /\ \A j \in 1..Len(fs) : \E i \in 1..Len(es) : SameSegment(es[i], fs[j])
\* a second call has finished, in the other mode than the first
BothModesDone ==
    /\ Done
    /\ Len(returned) = 1
    /\ returned[1].recording # recording

\* C26: on the same points and rectangle, compute_voronoi and
\* compute_voronoi_with_steps return the same edges: as many, and the
\* same segments within tolerance.
C26_SameDiagram == BothModesDone => SameEdges(returned[1].edges, edges)

(***************************************************************************)
(* C27: in a saved output file the P lines come first and then the E       *)
(* lines, both in lexicographic order of the integers written: the P       *)
(* lines are non-decreasing in (x, y), every E line has x1 < x2, or        *)
(* x1 = x2 and y1 <= y2, and consecutive E lines are non-decreasing in     *)
(* (x1, y1, x2, y2), whatever points and edges are on the canvas.          *)
(***************************************************************************)
Written(line) == [k \in 1..(Len(line) - 1) |-> line[k + 1].val[1]]

RECURSIVE LexLe(_, _)
LexLe(a, b) ==
    IF a = <<>> THEN TRUE
    ELSE IF b = <<>> THEN FALSE
    ELSE IF Head(a) # Head(b) THEN Head(a) < Head(b)
    ELSE LexLe(Tail(a), Tail(b))

PThenE(f) == \A i, j \in 1..Len(f) : (i < j /\ IsTagged(f[i], "E")) => IsTagged(f[j], "E")
InOrder(f, tag) ==
    \A i \in 1..(Len(f) - 1) :
        (IsTagged(f[i], tag) /\ IsTagged(f[i + 1], tag)) => LexLe(Written(f[i]), Written(f[i + 1]))
EndsInOrder(f) ==
    \A i \in 1..Len(f) :
        IsTagged(f[i], "E") => LexLe(SubSeq(Written(f[i]), 1, 2), SubSeq(Written(f[i]), 3, 4))
LexicalOrder(f) == PThenE(f) /\ InOrder(f, "P") /\ EndsInOrder(f) /\ InOrder(f, "E")

C27_SavedInOrder == LexicalOrder(saved)

(***************************************************************************)
(* C28: with k >= 1 merge steps cached, successive Step clicks show step 1 *)
(* with the hulls of its children, step 1 with the merged hull, step 2     *)
(* with the hulls of its children, and so on.  The step index stays in     *)
(* 0..k and the sub-phase in {0, 1, 2}; Shown counts the displays made so  *)
(* far (two per step); a Step click that finds Shown < 2k makes display    *)
(* number Shown + 1, and a click that finds Shown = 2k only reports that   *)
(* all merge steps are done and leaves the canvas as it is.  (A Step click *)
(* on an empty canvas returns at line 451 before it looks at the steps.)   *)
(***************************************************************************)
Shown(c, idx, sub) == IF c.cached THEN 2 * idx + sub ELSE 0
PhaseOf(n) == IF n % 2 = 0 THEN "left and right hulls" ELSE "merged hull"

StepRanges ==
    (cached_steps.cached /\ Len(cached_steps.list) >= 1)
        => /\ step_idx \in 0..Len(cached_steps.list)
           /\ sub_phase \in {0, 1, 2}
           /\ Shown(cached_steps, step_idx, sub_phase) <= 2 * Len(cached_steps.list)

NextDisplay(n, k) ==
    IF n < 2 * k
    THEN /\ status' = Status("Merge step", (n \div 2) + 1, k, PhaseOf(n))
         /\ Shown(cached_steps', step_idx', sub_phase') = n + 1
         /\ canvas_edges' = add_edges(<<>>, cached_steps'.list[(n \div 2) + 1].left_edges \o cached_steps'.list[(n \div 2) + 1].right_edges \o cached_steps'.list[(n \div 2) + 1].hyperplane_edges, canvas_w, canvas_h)
    ELSE /\ status' = Message("Step: all merge steps done")
         /\ Shown(cached_steps', step_idx', sub_phase') = 2 * k
         /\ UNCHANGED canvas_edges

StepClickShowsNext ==
    (canvas_points # <<>> /\ cached_steps'.cached /\ Len(cached_steps'.list) >= 1 /\ OnStepClick)
        => NextDisplay(Shown(cached_steps, step_idx, sub_phase), Len(cached_steps'.list))

StepsAreOf(list, pts) == list = compute_voronoi_with_steps(pts, canvas_w, canvas_h).steps

C29_StepsOfCanvasPoints == cached_steps.cached => StepsAreOf(cached_steps.list, canvas_points)

(***************************************************************************)
(* C30: next_batch returns None only at the end of the data, on a          *)
(* malformed count line, or after close; and once it has returned None,    *)
(* every later call returns None too, with no points, until open() is      *)
(* called again.                                                           *)
(***************************************************************************)
IsNone(c) == c.name = "next_batch" /\ c.none
NoOpenBetween(log, i, j) == \A m \in (i + 1)..(j - 1) : log[m].name # "open"

NoneStays ==
    \A i, j \in 1..Len(reader_log) :
        (i < j /\ IsNone(reader_log[i]) /\ reader_log[j].name = "next_batch"
         /\ NoOpenBetween(reader_log, i, j))
            => (reader_log[j].none /\ reader_log[j].pts = <<>>)

\* the lines with data from where the next read starts (the first line when
\* the file is not open yet)
ReadStart(fm) == IF fm.fp.open THEN fm.fp.at ELSE 1
DataAhead(fm) == {k \in ReadStart(fm)..Len(fm.path) : fm.path[k] # <<>> /\ ~IsTagged(fm.path[k], "#")}
FirstOf(S) == CHOOSE k \in S : \A m \in S : k <= m
EndOfData(fm) == DataAhead(fm) = {}
MalformedCount(fm) == DataAhead(fm) # {} /\ fm.path[FirstOf(DataAhead(fm))][1].kind # "int"
AfterClose(log) ==
    \E i \in 1..Len(log) :
        /\ log[i].name = "close" \/ IsNone(log[i])
        /\ \A m \in (i + 1)..Len(log) : log[m].name # "open"

NoneOnlyThen ==
    (reader_log' # reader_log /\ IsNone(reader_log'[Len(reader_log')]))
        => (AfterClose(reader_log) \/ EndOfData(file_manager) \/ MalformedCount(file_manager))

C30_NoneUntilOpen == []NoneStays /\ [][NoneOnlyThen]_vars

\* a batch was read, then None came twice in a row
C30_Witness ==
    /\ Len(reader_log) >= 3
    /\ reader_log[1].name = "next_batch" /\ reader_log[1].pts # <<>>
    /\ IsNone(reader_log[2])
    /\ IsNone(reader_log[3])
====
